---------------------------- MODULE Spec2Model ----------------------------
(***************************************************************************)
(* The napi release pipeline of xn-sakina/vary (src/commands/napiPublish.ts *)
(* and its collaborators release.ts and utils/cmd.ts) as a state machine.   *)
(* One behaviour is one invocation of `vary napi-publish` (SpecRerun: a     *)
(* few invocations in a row on the same repository).  The state is the      *)
(* part of the file system the command reads and writes, the process        *)
(* environment, the command's local variables and its position.             *)
(***************************************************************************)
EXTENDS Integers, Sequences, FiniteSets, TLC

VARIABLES
    argv,            \* parsed command line flags (INapiArgv and tag)
    env,             \* process.env: the variables the command reads
    fs,              \* the files and directories the command reads and writes
    fs0,             \* fs as it was when the current invocation started
    run,             \* number of the current invocation, from 1
    pc,              \* position of the invocation in napiPublish
    err,             \* message of the error that ended the invocation, or NoError
    ops,             \* file system mutations, external commands and console
                     \* lines of the current invocation, in order
    rootPkg,         \* the required (in memory) root package.json
    cliVersion,      \* detectNapiCLIVersion's result [isV2, isV3]
    napiFinalConfig, \* getNapiCompatConfig's result
    dirs,            \* entries of <root>/npm read after stub generation
    opt              \* performWasmOpt's call: its argument, where it returns
                     \* to, and the .wasm files it found

vars == <<argv, env, fs, fs0, run, pc, err, ops, rootPkg, cliVersion,
          napiFinalConfig, dirs, opt>>

-----------------------------------------------------------------------------
(* Bounds of the model *)

\* How many inputs of an invocation differ from the baseline repository.
MaxDeviations == 1
\* How many invocations SpecRerun runs in a row on the same repository.
MaxRuns == 2
\* Longest target list SpecNorm draws for the config normalizer.
MaxTargets == 2

-----------------------------------------------------------------------------
(* JavaScript values *)

\* An optional value: <<>> is undefined, <<v>> is the value v.
Undefined == <<>>
Some(v) == <<v>>
IsSome(o) == Len(o) = 1
Val(o) == o[1]

\* Objects are functions from keys to values; a missing key is undefined.
Has(obj, k) == k \in DOMAIN obj
\* `obj.k` (or `obj?.k?.length`) used as a condition: a missing key, the
\* empty string and, with .length, the empty array are falsy.  Strings and
\* arrays are told apart by the caller, who knows the type of the key.
TruthyStr(obj, k) == Has(obj, k) /\ obj[k] # ""
NonEmptyArr(obj, k) == Has(obj, k) /\ Len(obj[k]) > 0
\* obj without key k.
Without(obj, k) == [x \in (DOMAIN obj) \ {k} |-> obj[x]]
\* lodash pick(obj, keys): the keys of `keys` that obj has.
Pick(obj, keys) == [k \in (DOMAIN obj) \cap keys |-> obj[k]]
\* Object.assign(target, source) and { ...a, ...b }.
Assign(target, source) ==
    [k \in (DOMAIN target) \cup (DOMAIN source) |->
        IF k \in DOMAIN source THEN source[k] ELSE target[k]]
EmptyObject == [k \in {} |-> ""]

Range(s) == {s[i] : i \in 1..Len(s)}
\* Array.prototype.filter, keeping the order.
RECURSIVE SeqFilter(_, _)
SeqFilter(s, keep) ==
    IF s = <<>> THEN <<>>
    ELSE IF Head(s) \in keep THEN <<Head(s)>> \o SeqFilter(Tail(s), keep)
         ELSE SeqFilter(Tail(s), keep)
\* lodash difference(array, values): the elements of array that are not in
\* values, in the order of array.
Difference(array, values) == SeqFilter(array, Range(array) \ Range(values))

\* A set as an array in some fixed order (readdirSync, Object.keys).
RECURSIVE SetToSeq(_)
SetToSeq(S) ==
    IF S = {} THEN <<>>
    ELSE LET x == CHOOSE y \in S : TRUE IN <<x>> \o SetToSeq(S \ {x})

\* String.prototype.startsWith on strings kept as sequences of characters.
StartsWith(s, prefix) ==
    Len(s) >= Len(prefix) /\ SubSeq(s, 1, Len(prefix)) = prefix

-----------------------------------------------------------------------------
(* The architecture catalog *)

Arch(desc, os, cpu, targetName) ==
    [desc |-> desc, pkg |-> [os |-> <<os>>, cpu |-> <<cpu>>],
     targetName |-> targetName]

\* Object.keys(ARCH_MAP), in insertion order.
ARCH_KEYS ==
    << "darwin-arm64", "darwin-x64", "linux-arm-gnueabihf", "linux-arm64-gnu",
       "linux-arm64-musl", "linux-x64-gnu", "linux-x64-musl",
       "win32-arm64-msvc", "win32-x64-msvc" >>

ARCH_MAP ==
    ("darwin-arm64" :>
        Arch("macOS ARM 64-bit", "darwin", "arm64", "aarch64-apple-darwin")) @@
    ("darwin-x64" :>
        Arch("macOS 64-bit", "darwin", "x64", "x86_64-apple-darwin")) @@
    ("linux-arm-gnueabihf" :>
        Arch("Linux ARM 32-bit", "linux", "arm", "armv7-unknown-linux-gnueabihf")) @@
    ("linux-arm64-gnu" :>
        Arch("Linux ARM 64-bit", "linux", "arm64", "aarch64-unknown-linux-gnu")) @@
    ("linux-arm64-musl" :>
        Arch("Linux ARM 64-bit (musl)", "linux", "arm64", "aarch64-unknown-linux-musl")) @@
    ("linux-x64-gnu" :>
        Arch("Linux 64-bit", "linux", "x64", "x86_64-unknown-linux-gnu")) @@
    ("linux-x64-musl" :>
        Arch("Linux 64-bit (musl)", "linux", "x64", "x86_64-unknown-linux-musl")) @@
    ("win32-arm64-msvc" :>
        Arch("Windows ARM 64-bit", "win32", "arm64", "aarch64-pc-windows-msvc")) @@
    ("win32-x64-msvc" :>
        Arch("Windows 64-bit", "win32", "x64", "x86_64-pc-windows-msvc"))

\* Object.values(ARCH_MAP).map((i) => i.targetName)
allSupportTargetList == [i \in 1..Len(ARCH_KEYS) |-> ARCH_MAP[ARCH_KEYS[i]].targetName]

NAPI_PKGS == [wasmRuntime |-> "@napi-rs/wasm-runtime", cli |-> "@napi-rs/cli"]

-----------------------------------------------------------------------------
(* The repositories, environments and command lines the model starts from *)

\* Versions of the installed @napi-rs/cli, as character sequences.
CliV3 == <<"3", ".", "0", ".", "0">>
CliV2 == <<"2", ".", "1", "8", ".", "4">>
CliV20 == <<"2", "0", ".", "1", ".", "0">>
CliV1 == <<"1", ".", "3", ".", "5">>

LinuxX64 == "x86_64-unknown-linux-gnu"
DarwinArm64 == "aarch64-apple-darwin"
\* A target triple the catalog does not have.
RiscV == "riscv64gc-unknown-linux-gnu"

\* An object with the key k when its value is given, empty otherwise.
Field(k, o) == IF IsSome(o) THEN (k :> Val(o)) ELSE EmptyObject

\* package.json#napi in the current shape (INapiV3) and in the legacy shape
\* (INapiV2), every key optional.  JSON's true, false and null are kept as
\* the strings "true", "false" and "null".
NapiV3(binaryName, packageName, targets) ==
    Field("binaryName", binaryName) @@ Field("packageName", packageName) @@
    Field("targets", targets)
Triples(defaults, additional) ==
    Field("defaults", defaults) @@ Field("additional", additional)
NapiV2(name, package, triples) ==
    Field("name", name) @@ Field("package", package) @@ Field("triples", triples)

BinaryName == "binding"
PackageName == "@scope/pkg"
RootName == "root-pkg"
RootVersion == "1.2.3"
RepoUrl == "https://github.com/user/repo"

\* Complete configurations of the two shapes.
GoodV3(targets) == NapiV3(Some(BinaryName), Some(PackageName), Some(targets))
GoodV2(defaults, additional) ==
    NapiV2(Some(BinaryName), Some([name |-> PackageName]),
           Some(Triples(Some(defaults), Some(additional))))

\* The fields of the root package.json the baseline repository declares
\* besides napi, files, scripts and the dependencies.
BasePkgFields ==
    [name |-> RootName, version |-> RootVersion, main |-> "index.js",
     description |-> "a native addon", author |-> "someone",
     license |-> "MIT", repository |-> [type |-> "git", url |-> RepoUrl]]

WasmFilesList == <<"binding.js", "index.js", "postinstall.js">>

\* File names of the wasm build outputs, as sequences of tokens (words and
\* the separators "." and "-"), so that endsWith and includes can be computed.
Name1(a) == <<a>>
Name2(a, b) == <<a, ".", b>>
Name3(a, b, c) == <<a, ".", b, ".", c>>

\* Lines of the user .npmrc, as sequences of tokens.
AuthLine(host, key, token) == <<"//", host, "/:", key, "=", token>>
OtherLine == <<"email", "=", "someone@example.com">>
EmptyLine == <<>>
RegistryHost == "registry.npmjs.com"

\* A stub directory as stub generation creates it: an empty README.md and a
\* package.json holding the catalog entry's os and cpu.
FreshStub(dirName) ==
    [isDir |-> TRUE,
     files |-> ("README.md" :> "" @@ "package.json" :> ARCH_MAP[dirName].pkg)]
\* A plain file (.DS_Store) in <root>/npm.
PlainFile == [isDir |-> FALSE, files |-> EmptyObject]
FreshStubs(keys) == [k \in keys |-> FreshStub(k)]

\* target/wasm after `pnpm build:wasm`: what wasm-pack and what napi's wasi
\* build leave there.
WasmBuildOutput ==
    [n \in { Name2("index", "js"), Name3("index", "d", "ts"),
             Name2("index_bg", "wasm"), Name2("package", "json"),
             <<"binding", ".", "wasm32", "-", "wasi", ".", "wasm">>,
             Name3("binding", "wasi", "cjs"),
             <<"binding", ".", "wasi", "-", "browser", ".", "js">>,
             <<"wasi", "-", "worker", ".", "mjs">>,
             <<"wasi", "-", "worker", "-", "browser", ".", "mjs">> } |-> "built"]
\* target/wasm_web after `pnpm build:wasm:web`.
WasmWebBuildOutput ==
    [n \in { Name2("index", "js"), Name3("index", "d", "ts"),
             Name2("index_bg", "wasm"), Name2("package", "json") } |-> "built"]

\* --wasm-opt [path]: not given, given bare (true), or given with a path.
WasmOptArg(given, path) == [given |-> given, path |-> path]

\* The baseline: a repository on the current config shape declaring one
\* target, built, never released (no npm, dist or publish directories), whose
\* user is logged in to the registry and has no NPM_TOKEN.
BaseWorld ==
    [ cli |-> Some(CliV3),
      cliDep |-> Some("^3.0.0"),
      napi |-> Some(GoodV3(<<LinuxX64>>)),
      missing |-> {},
      files |-> Some(WasmFilesList),
      postinstall |-> Some("node postinstall.js"),
      wasmRuntime |-> Some("^1.0.0"),
      rootFiles |-> {"LICENSE", "README.md", "index.js", "index.d.ts",
                     "binding.js", "postinstall.js"},
      npm |-> Undefined,
      dist |-> Undefined,
      workspace |-> Some(<<"packages/*">>),
      npmrc |-> Some(<<AuthLine(RegistryHost, "_authToken", "old"), EmptyLine>>),
      token |-> Undefined,
      wasmDir |-> Some(WasmBuildOutput),
      wasmWebDir |-> Some(WasmWebBuildOutput),
      wasmPublish |-> Undefined,
      wasmWebPublish |-> Undefined,
      cache |-> Undefined,
      cargo |-> "absent",
      platform |-> "linux",
      arch |-> "x64",
      skipOpt |-> Undefined,
      skipTips |-> Undefined,
      debug |-> Undefined,
      tag |-> Undefined,
      vary |-> Undefined,
      wasmOpt |-> WasmOptArg(FALSE, Undefined) ]

\* One deviation from the baseline each: the values of some inputs.
Deviations ==
    { \* the native-binding configuration and the installed tool
      [napi |-> Some(GoodV3(<<RiscV>>))],
      [napi |-> Some(GoodV3(<<LinuxX64, RiscV>>))],
      [napi |-> Some(GoodV3(<<LinuxX64, DarwinArm64>>))],
      [napi |-> Some(GoodV3(<<>>))],
      [napi |-> Undefined],
      [cli |-> Some(CliV2), napi |-> Some(GoodV2("false", <<LinuxX64>>))],
      [cli |-> Some(CliV2), napi |-> Some(GoodV2("true", <<LinuxX64>>))],
      [cli |-> Some(CliV1)],
      [cli |-> Some(CliV20)],
      [cli |-> Undefined],
      [cliDep |-> Undefined],
      \* the other manifest fields
      [missing |-> {"name"}], [missing |-> {"version"}], [missing |-> {"repository"}],
      [files |-> Undefined], [files |-> Some(<<>>)], [files |-> Some(<<"index.js">>)],
      [postinstall |-> Undefined],
      [wasmRuntime |-> Undefined],
      \* the files of the repository
      [rootFiles |-> {"README.md", "index.js", "index.d.ts", "binding.js",
                      "postinstall.js"}],
      [rootFiles |-> {"LICENSE", "README.md", "index.d.ts", "binding.js",
                      "postinstall.js"}],
      [rootFiles |-> {"LICENSE", "README.md", "index.js", "index.d.ts",
                      "postinstall.js"}],
      [npm |-> Some(EmptyObject)],
      [npm |-> Some(FreshStubs({"linux-x64-gnu"}))],
      [npm |-> Some(FreshStubs(Range(ARCH_KEYS)))],
      [npm |-> Some(FreshStubs({"linux-x64-gnu"}) @@ (".DS_Store" :> PlainFile))],
      [npm |-> Some(FreshStubs({"linux-x64-gnu"}) @@ ("README.md" :> PlainFile))],
      [dist |-> Some("stale.js" :> "stale")],
      [workspace |-> Some(<<"packages/*", "./npm/*">>)],
      [workspace |-> Undefined],
      \* the credentials
      [npmrc |-> Some(<<OtherLine, EmptyLine>>)],
      [npmrc |-> Undefined],
      [npmrc |-> Some(<<OtherLine, EmptyLine>>), token |-> Some("secret")],
      [npmrc |-> Undefined, token |-> Some("secret")],
      [npmrc |-> Undefined, token |-> Some("")],
      [npmrc |-> Some(<<AuthLine("registry.npmjs.org", "_authToken", "old")>>),
       token |-> Some("secret")],
      \* the wasm build outputs and the optimization pass
      [wasmDir |-> Undefined],
      [wasmWebDir |-> Undefined],
      [wasmDir |-> Some([n \in {Name2("index", "js")} |-> "built"])],
      [wasmPublish |-> Some([n \in {Name2("stale", "js")} |-> "stale"])],
      [wasmWebPublish |-> Some([n \in {Name2("stale", "js")} |-> "stale"])],
      [cache |-> Some({"binaryen.tar.gz", "wasm-opt"})],
      [cache |-> Some({"binaryen.tar.gz"})],
      [cargo |-> "plain"], [cargo |-> "unreadable"],
      [platform |-> "win32"], [arch |-> "ia32"],
      [skipOpt |-> Some("1")],
      \* the invocation
      [debug |-> Some("1")],
      [tag |-> Some("beta")],
      [wasmOpt |-> WasmOptArg(TRUE, Undefined)],
      [wasmOpt |-> WasmOptArg(TRUE, Some("target/wasm"))],
      [wasmOpt |-> WasmOptArg(TRUE, Some("target/wasm/index_bg.wasm"))],
      [wasmOpt |-> WasmOptArg(TRUE, Some("target/nowhere"))],
      [wasmOpt |-> WasmOptArg(TRUE, Some("target/wasm")),
       wasmDir |-> Some([n \in {Name2("index", "js")} |-> "built"])],
      [wasmOpt |-> WasmOptArg(TRUE, Undefined),
       wasmDir |-> Undefined, wasmWebDir |-> Undefined],
      [vary |-> Some([wasmName |-> "my-wasm", wasmWebName |-> "my-wasm-web"])] }

\* The worlds at most k deviations away from the baseline.
RECURSIVE Worlds(_)
Worlds(k) ==
    IF k = 0 THEN {BaseWorld}
    ELSE LET near == Worlds(k - 1)
         IN near \cup {Assign(w, d) : w \in near, d \in Deviations}

\* The root package.json of a world.
MkPkg(w) ==
    LET fields == [k \in (DOMAIN BasePkgFields) \ w.missing |-> BasePkgFields[k]]
        napi == IF IsSome(w.napi) THEN [napi |-> Val(w.napi)] ELSE EmptyObject
        files == IF IsSome(w.files) THEN [files |-> Val(w.files)] ELSE EmptyObject
        scripts ==
            [scripts |-> Assign([build |-> "napi build"],
                IF IsSome(w.postinstall) THEN [postinstall |-> Val(w.postinstall)]
                ELSE EmptyObject)]
        deps ==
            [devDependencies |-> Assign(
                IF IsSome(w.cliDep) THEN (NAPI_PKGS.cli :> Val(w.cliDep)) ELSE EmptyObject,
                IF IsSome(w.wasmRuntime) THEN (NAPI_PKGS.wasmRuntime :> Val(w.wasmRuntime))
                ELSE EmptyObject)]
        vary == IF IsSome(w.vary) THEN [vary |-> Val(w.vary)] ELSE EmptyObject
    IN Assign(Assign(Assign(Assign(Assign(fields, napi), files), scripts), deps), vary)

\* The files of a world: every directory is undefined (absent) or a function
\* from the names of its entries to their contents.  A JSON or YAML file is
\* kept as the object it parses to, a text file as its text or its lines.
MkFs(w) ==
    [ pkg |-> MkPkg(w),                 \* <root>/package.json
      cli |-> w.cli,                    \* version of node_modules/@napi-rs/cli
      root |-> [f \in w.rootFiles |-> "repo"],  \* the other files of <root>
      npm |-> w.npm,                    \* <root>/npm
      dist |-> w.dist,                  \* <root>/dist
      workspace |-> w.workspace,        \* packages of <root>/pnpm-workspace.yaml
      npmrc |-> w.npmrc,                \* lines of ~/.npmrc
      wasm |-> w.wasmDir,               \* <root>/target/wasm
      wasmWeb |-> w.wasmWebDir,         \* <root>/target/wasm_web
      wasmPublish |-> w.wasmPublish,    \* <root>/target/wasm_publish
      wasmWebPublish |-> w.wasmWebPublish,  \* <root>/target/wasm_web_publish
      cache |-> w.cache,                \* <root>/target/.wasm-cache
      cargo |-> w.cargo ]               \* <root>/Cargo.toml

\* process.env, os.platform() and os.arch() of a world.
MkEnv(w) ==
    [ NPM_TOKEN |-> w.token, DEBUG_VARY |-> w.debug,
      VARY_SKIP_WASM_OPT |-> w.skipOpt, VARY_SKIP_WASM_OPT_TIPS |-> w.skipTips,
      platform |-> w.platform, arch |-> w.arch ]


\* The selection flags of an invocation (INapiArgv).
FlagSets ==
    [root : BOOLEAN, wasm : BOOLEAN, wasmWeb : BOOLEAN, napiWasm : BOOLEAN]

MkArgv(flags, w) == Assign(flags, [tag |-> w.tag, wasmOpt |-> w.wasmOpt])

NoError == ""
NoConfig == Undefined
NoOpt == [path |-> Undefined, ret |-> "", files |-> <<>>, running |-> {}]

\* The state in which an invocation starts.
StartOfRun(a, e, f, n) ==
    /\ argv = a
    /\ env = e
    /\ fs = f
    /\ fs0 = f
    /\ run = n
    /\ pc = "start"
    /\ err = NoError
    /\ ops = <<>>
    /\ rootPkg = EmptyObject
    /\ cliVersion = [isV2 |-> FALSE, isV3 |-> FALSE]
    /\ napiFinalConfig = NoConfig
    /\ dirs = <<>>
    /\ opt = NoOpt

Init ==
    \E w \in Worlds(MaxDeviations), flags \in FlagSets :
        StartOfRun(MkArgv(flags, w), MkEnv(w), MkFs(w), 1)

-----------------------------------------------------------------------------
(* What an invocation does, as the entries of ops *)

Log(msg) == [op |-> "log", msg |-> msg]
LogList(msg, list) == [op |-> "log", msg |-> msg, list |-> list]
Mkdir(path) == [op |-> "mkdir", path |-> path]
Remove(path) == [op |-> "remove", path |-> path]
Write(path) == [op |-> "write", path |-> path]
Copy(from, to) == [op |-> "copy", from |-> from, path |-> to]
AppendTo(path) == [op |-> "append", path |-> path]
Exec(command, cwd) == [op |-> "exec", cmd |-> command, cwd |-> cwd]

\* The directory creations and deletions and the file writes among ops.
MutationOps == {"mkdir", "remove", "write", "copy", "append"}
Mutations(o) == SelectSeq(o, LAMBDA x : x.op \in MutationOps)
\* The external commands among ops.
Execs(o) == SelectSeq(o, LAMBDA x : x.op = "exec")

\* The invocation goes on at `label`, or ends with the error `msg`.
Goto(label) == pc' = label /\ err' = NoError
Throw(msg) == pc' = "failed" /\ err' = msg

\* utils/cmd.ts: with DEBUG_VARY the command line is printed and nothing is
\* run; otherwise the command runs and a non-zero exit throws.
DebugVary == IsSome(env.DEBUG_VARY) /\ Val(env.DEBUG_VARY) # ""
cmd(command, cwd) == IF DebugVary THEN Log(command) ELSE Exec(command, cwd)
ExitCodes == IF DebugVary THEN {0} ELSE {0, 1}

-----------------------------------------------------------------------------
(* napiPublish, up to the choice of the release mode *)

\* A faulty variant of Entry that goes on to the release after no
\* optimization pass, whatever --wasm-opt says.
EntryWithoutDispatch ==
    /\ pc = "start"
    /\ rootPkg' = fs.pkg
    /\ opt' = opt
    /\ Goto("detect")
    /\ UNCHANGED <<argv, env, fs, fs0, run, ops, cliVersion, napiFinalConfig, dirs>>

\* napiPublish, lines 567-584: require the root manifest, and with --wasm-opt
\* run the optimization pass alone.
Entry ==
    /\ pc = "start"
    /\ rootPkg' = fs.pkg
    /\ IF argv.wasmOpt.given
       THEN /\ opt' = [path |-> argv.wasmOpt.path, ret |-> "done", files |-> <<>>,
                         running |-> {}]
            /\ Goto("opt_tips")
       ELSE /\ opt' = opt
            /\ Goto("detect")
    /\ UNCHANGED <<argv, env, fs, fs0, run, ops, cliVersion, napiFinalConfig, dirs>>

\* detectNapiCLIVersion: the error it throws ("" when it returns) and the
\* versions it tells apart.
detectError(pkg, installed) ==
    LET deps == Assign(IF Has(pkg, "dependencies") THEN pkg.dependencies ELSE EmptyObject,
                       IF Has(pkg, "devDependencies") THEN pkg.devDependencies
                       ELSE EmptyObject)
    IN IF ~TruthyStr(deps, NAPI_PKGS.cli)
       THEN "Cannot find @napi-rs/cli in root package.json, please install it"
       ELSE IF ~IsSome(installed)
       THEN "Cannot find module '@napi-rs/cli/package.json'"
       ELSE NoError
detectNapiCLIVersion(installed) ==
    [isV2 |-> StartsWith(installed, <<"2", ".">>),
     isV3 |-> StartsWith(installed, <<"3", ".">>)]

DetectVersion ==
    /\ pc = "detect"
    /\ LET e == detectError(rootPkg, fs.cli)
       IN IF e # NoError
          THEN /\ Throw(e)
               /\ UNCHANGED <<cliVersion, ops>>
          ELSE /\ cliVersion' = detectNapiCLIVersion(Val(fs.cli))
               /\ ops' = Append(ops, LogList("Using @napi-rs/cli@", Val(fs.cli)))
               /\ Goto("assert")
    /\ UNCHANGED <<argv, env, fs, fs0, run, rootPkg, napiFinalConfig, dirs, opt>>

\* napiPublish, lines 589-598: the three asserts on the root manifest.
assertError(pkg) ==
    IF ~TruthyStr(pkg, "name") THEN "package.json#name is required"
    ELSE IF ~TruthyStr(pkg, "version") THEN "package.json#version is required"
    ELSE IF ~(Has(pkg, "repository") /\ TruthyStr(pkg.repository, "url"))
    THEN "package.json#repository.url is required, e.g. https://github.com/user/repo"
    ELSE NoError

AssertRootFields ==
    /\ pc = "assert"
    /\ IF assertError(rootPkg) # NoError
       THEN Throw(assertError(rootPkg))
       ELSE Goto("config")
    /\ UNCHANGED <<argv, env, fs, fs0, run, ops, rootPkg, cliVersion,
                   napiFinalConfig, dirs, opt>>

\* getNapiCompatConfig, lines 600-641: the normalized configuration, or the
\* error thrown.  `isV` is detectNapiCLIVersion's result.
MissingError(key) == "package.json#napi." \o key \o " is required"
ManualConfigError ==
    "package.json#napi.triples.defaults must be false, and manually config all platforms"
TargetsError == "package.json#napi.targets is required and not empty"
UnsupportedVersionError == "Unsupported napi cli version"
Config(binaryName, packageName, targets) ==
    [error |-> NoError, binaryName |-> binaryName, packageName |-> packageName,
     targets |-> targets]
ConfigError(msg) ==
    [error |-> msg, binaryName |-> "", packageName |-> "", targets |-> <<>>]

\* A faulty variant of isMannualConfig that does not look at defaults.
isMannualConfigAnyDefaults(napiConfigV2) ==
    /\ Has(napiConfigV2, "triples")
    /\ NonEmptyArr(napiConfigV2.triples, "additional")

\* lines 612-616
isMannualConfig(napiConfigV2) ==
    /\ Has(napiConfigV2, "triples")
    /\ Has(napiConfigV2.triples, "defaults")
    /\ napiConfigV2.triples.defaults = "false"
    /\ NonEmptyArr(napiConfigV2.triples, "additional")

getNapiCompatConfig(pkg, isV) ==
    IF ~Has(pkg, "napi") THEN ConfigError("package.json#napi is required")
    ELSE LET napiConfig == pkg.napi
         IN IF isV.isV2
            THEN IF ~isMannualConfig(napiConfig) THEN ConfigError(ManualConfigError)
                 ELSE IF ~TruthyStr(napiConfig, "name")
                 THEN ConfigError(MissingError("name"))
                 ELSE IF ~(Has(napiConfig, "package")
                           /\ TruthyStr(napiConfig.package, "name"))
                 THEN ConfigError(MissingError("package"))
                 ELSE Config(napiConfig.name, napiConfig.package.name,
                             napiConfig.triples.additional)
            ELSE IF isV.isV3
            THEN IF ~NonEmptyArr(napiConfig, "targets") THEN ConfigError(TargetsError)
                 ELSE IF ~TruthyStr(napiConfig, "binaryName")
                 THEN ConfigError(MissingError("binaryName"))
                 ELSE IF ~TruthyStr(napiConfig, "packageName")
                 THEN ConfigError(MissingError("packageName"))
                 ELSE Config(napiConfig.binaryName, napiConfig.packageName,
                             napiConfig.targets)
            ELSE ConfigError(UnsupportedVersionError)

\* napiPublish, line 641.
NormalizeConfig ==
    /\ pc = "config"
    /\ LET c == getNapiCompatConfig(rootPkg, cliVersion)
       IN IF c.error # NoError
          THEN /\ Throw(c.error)
               /\ UNCHANGED napiFinalConfig
          ELSE /\ napiFinalConfig' = Some(c)
               /\ Goto("validate")
    /\ UNCHANGED <<argv, env, fs, fs0, run, ops, rootPkg, cliVersion, dirs, opt>>

\* A faulty variant of notSupportPlatform that finds every target supported.
notSupportPlatformNone(additional) == <<>>

\* release, lines 658-670: the configured targets the catalog does not have.
notSupportPlatform(additional) == Difference(additional, allSupportTargetList)

ValidateTargets ==
    /\ pc = "validate"
    /\ LET additional == Val(napiFinalConfig).targets
           unsupported == notSupportPlatform(additional)
       IN IF Len(unsupported) > 0
          THEN /\ ops' = ops \o
                    << LogList("Not support compililing these platforms config: ",
                               unsupported),
                       LogList("Supported platforms: ", additional) >>
               /\ Throw("Unsupported platform")
          ELSE /\ ops' = ops
               /\ Goto("stubs")
    /\ UNCHANGED <<argv, env, fs, fs0, run, rootPkg, cliVersion, napiFinalConfig,
                   dirs, opt>>

\* release, lines 672-692: the stub directories, created when <root>/npm
\* does not exist.  The new content of <root>/npm and the operations done.
StubOps(dirName) ==
    << Mkdir("npm/" \o dirName), Write("npm/" \o dirName \o "/README.md"),
       Write("npm/" \o dirName \o "/package.json") >>
RECURSIVE AllStubOps(_)
AllStubOps(keys) ==
    IF keys = <<>> THEN <<>> ELSE StubOps(Head(keys)) \o AllStubOps(Tail(keys))
\* A faulty variant of ensureStubs that generates the stubs whether or not
\* <root>/npm exists.
ensureStubsAlways(npm) ==
    [npm |-> Some(FreshStubs(Range(ARCH_KEYS))),
     ops |-> <<Mkdir("npm")>> \o AllStubOps(ARCH_KEYS)]

ensureStubs(npm) ==
    IF ~IsSome(npm)
    THEN [npm |-> Some(FreshStubs(Range(ARCH_KEYS))),
          ops |-> <<Mkdir("npm")>> \o AllStubOps(ARCH_KEYS)]
    ELSE [npm |-> npm, ops |-> <<>>]

\* release, lines 694-696: the entries of <root>/npm but .DS_Store.
readNpmDir(npm) == SetToSeq((DOMAIN Val(npm)) \ {".DS_Store"})

\* release, lines 698, 782-784, 985: the release mode the flags select.
Branch ==
    IF argv.root THEN "root_build"
    ELSE IF argv.wasm \/ argv.napiWasm THEN "wasm_flags"
    ELSE IF argv.wasmWeb THEN "web_build"
    ELSE "patch"

EnsureStubs ==
    /\ pc = "stubs"
    /\ LET r == ensureStubs(fs.npm)
       IN /\ fs' = [fs EXCEPT !.npm = r.npm]
          /\ ops' = ops \o r.ops
          /\ dirs' = readNpmDir(r.npm)
    /\ Goto(Branch)
    /\ UNCHANGED <<argv, env, fs0, run, rootPkg, cliVersion, napiFinalConfig, opt>>

-----------------------------------------------------------------------------
(* Root mode (--root), lines 699-780 *)

\* An external command through utils/cmd.ts: the invocation goes on at
\* `next` when it exits with 0 and ends with its error otherwise.
RunCmd(command, cwd, next) ==
    \E code \in ExitCodes :
        /\ ops' = Append(ops, cmd(command, cwd))
        /\ IF code = 0 THEN Goto(next) ELSE Throw("Command failed: " \o command)

NpmPublish == "npm publish --registry https://registry.npmjs.com/"

\* line 702
RootBuild ==
    /\ pc = "root_build"
    /\ RunCmd("pnpm build", ".", "root_dist")
    /\ UNCHANGED <<argv, env, fs, fs0, run, rootPkg, cliVersion, napiFinalConfig,
                   dirs, opt>>

\* lines 704-712: one optional dependency per entry of dirs.
optionalDependencies(entries, subPackagesPrefix, globalVersion) ==
    [n \in {subPackagesPrefix \o "-" \o arch : arch \in Range(entries)} |->
        globalVersion]

\* lines 740-750: lodash set(publishPkg, key, get(rootPkg, key)) for every
\* key of vary.keepKeys (a key rootPkg lacks is set to undefined, which
\* JSON.stringify leaves out), and the vary block itself.
RECURSIVE keepExtraKeys(_, _, _)
keepExtraKeys(publishPkg, pkg, extraKeys) ==
    IF extraKeys = <<>> THEN publishPkg
    ELSE keepExtraKeys(
            IF Has(pkg, Head(extraKeys))
            THEN Assign(publishPkg, Pick(pkg, {Head(extraKeys)}))
            ELSE Without(publishPkg, Head(extraKeys)),
            pkg, Tail(extraKeys))

RootPublishKeys ==
    {"name", "version", "main", "types", "description", "author", "homepage",
     "repository", "keywords", "license", "engines", "napi"}

\* lines 719-750: the manifest written to dist.
rootPublishPkg(pkg, optDeps) ==
    LET picked == Assign(Pick(pkg, RootPublishKeys), [optionalDependencies |-> optDeps])
        scripted ==
            IF Has(pkg, "scripts") /\ TruthyStr(pkg.scripts, "postinstall")
            THEN Assign(picked, [scripts |-> [postinstall |-> pkg.scripts.postinstall]])
            ELSE picked
    IN IF Has(pkg, "vary")
       THEN Assign(
                IF NonEmptyArr(pkg.vary, "keepKeys")
                THEN keepExtraKeys(scripted, pkg, pkg.vary.keepKeys)
                ELSE scripted,
                [vary |-> pkg.vary])
       ELSE scripted

\* A faulty variant of RecreateOps that leaves an existing directory in place.
RecreateOpsKept(exists, path) == <<Mkdir(path)>>

\* lines 713-718, 871-875, 1003-1007: an output directory is removed when it
\* exists and made anew.
RecreateOps(exists, path) ==
    (IF exists THEN <<Remove(path)>> ELSE <<>>) \o <<Mkdir(path)>>

\* lines 704-755: the publish directory with its manifest.
RootDist ==
    /\ pc = "root_dist"
    /\ LET c == Val(napiFinalConfig)
           optDeps == optionalDependencies(dirs, c.packageName, rootPkg.version)
       IN /\ fs' = [fs EXCEPT !.dist =
                        Some("package.json" :> rootPublishPkg(rootPkg, optDeps))]
          /\ ops' = ops \o RecreateOps(IsSome(fs.dist), "dist")
                        \o <<Write("dist/package.json")>>
    /\ Goto("root_files")
    /\ UNCHANGED <<argv, env, fs0, run, rootPkg, cliVersion, napiFinalConfig,
                   dirs, opt>>

\* lines 761-774: LICENSE, README.md and the listed files are copied in
\* order; a missing file is skipped, a missing index.js throws.
\* A faulty variant of copyRootFiles that skips a missing index.js as it
\* skips any other missing file.
copyRootFilesLenient(files, root, acc) ==
    LET present == SelectSeq(files, LAMBDA f : f \in DOMAIN root)
        missing == SelectSeq(files, LAMBDA f : f \notin DOMAIN root)
    IN [acc EXCEPT
            !.dir = [f \in Range(present) |-> root[f]] @@ @,
            !.ops = @ \o [i \in 1..Len(present) |->
                            Copy(present[i], "dist/" \o present[i])]
                      \o [i \in 1..Len(missing) |->
                            Log("File not found: " \o missing[i] \o ", skip copy")]]

RECURSIVE copyRootFiles(_, _, _)
copyRootFiles(files, root, acc) ==
    IF files = <<>> THEN acc
    ELSE LET file == Head(files)
         IN IF file \notin DOMAIN root
            THEN IF file = "index.js"
                 THEN [acc EXCEPT !.error = "File not found: index.js"]
                 ELSE copyRootFiles(Tail(files), root,
                        [acc EXCEPT !.ops =
                            Append(@, Log("File not found: " \o file \o ", skip copy"))])
            ELSE copyRootFiles(Tail(files), root,
                    [acc EXCEPT !.dir = (file :> root[file]) @@ @,
                                !.ops = Append(@, Copy(file, "dist/" \o file))])

FilesRequiredError == "package.json#files is required, e.g. ['index.js']"

\* A faulty variant of RootCopyFiles that does not require the files list.
RootCopyFilesUnchecked ==
    /\ pc = "root_files"
    /\ LET files == IF Has(rootPkg, "files") THEN rootPkg.files ELSE <<>>
           r == copyRootFiles(<<"LICENSE", "README.md">> \o files, fs.root,
                    [dir |-> Val(fs.dist), ops |-> <<>>, error |-> NoError])
       IN /\ fs' = [fs EXCEPT !.dist = Some(r.dir)]
          /\ ops' = ops \o r.ops
          /\ IF r.error # NoError THEN Throw(r.error) ELSE Goto("root_publish")
    /\ UNCHANGED <<argv, env, fs0, run, rootPkg, cliVersion, napiFinalConfig,
                   dirs, opt>>

\* lines 756-774
RootCopyFiles ==
    /\ pc = "root_files"
    /\ IF ~NonEmptyArr(rootPkg, "files")
       THEN /\ Throw(FilesRequiredError)
            /\ UNCHANGED <<fs, ops>>
       ELSE LET r == copyRootFiles(<<"LICENSE", "README.md">> \o rootPkg.files, fs.root,
                        [dir |-> Val(fs.dist), ops |-> <<>>, error |-> NoError])
            IN /\ fs' = [fs EXCEPT !.dist = Some(r.dir)]
               /\ ops' = ops \o r.ops
               /\ IF r.error # NoError THEN Throw(r.error) ELSE Goto("root_publish")
    /\ UNCHANGED <<argv, env, fs0, run, rootPkg, cliVersion, napiFinalConfig,
                   dirs, opt>>

\* A faulty variant of RootPublish without the return that ends root mode.
RootPublishNoReturn ==
    /\ pc = "root_publish"
    /\ RunCmd(NpmPublish, "dist",
              IF argv.wasm \/ argv.napiWasm THEN "wasm_flags"
              ELSE IF argv.wasmWeb THEN "web_build" ELSE "patch")
    /\ UNCHANGED <<argv, env, fs, fs0, run, rootPkg, cliVersion, napiFinalConfig,
                   dirs, opt>>

\* lines 775-779
RootPublish ==
    /\ pc = "root_publish"
    /\ RunCmd(NpmPublish, "dist", "done")
    /\ UNCHANGED <<argv, env, fs, fs0, run, rootPkg, cliVersion, napiFinalConfig,
                   dirs, opt>>

-----------------------------------------------------------------------------
(* The default path: the sub-packages, lines 1075-1145 *)

\* lines 644-651
GlobalPropKeys ==
    {"author", "homepage", "repository", "engines", "license", "publishConfig"}
globalProps(pkg) == Pick(pkg, GlobalPropKeys)

\* A faulty variant of patchPkg that names every stub after the prefix alone.
patchPkgUnnamed(pkg, arch, c, root) ==
    Assign(Assign(pkg, [name |-> c.packageName, version |-> root.version]),
           globalProps(root))

\* A faulty variant of patchPkg that merges the root's own name, version,
\* main and files along with the shared fields.
patchPkgRootMerged(pkg, arch, c, root) ==
    Assign(Assign(pkg, [description |-> "This is the " \o ARCH_MAP[arch].desc
                                            \o " binary for " \o root.name \o "."]),
           Pick(root, GlobalPropKeys \cup {"name", "version", "main", "files"}))

\* lines 1089-1096: the stub manifest, patched.
patchPkg(pkg, arch, c, root) ==
    LET main == c.binaryName \o "." \o arch \o ".node"
    IN Assign(
        Assign(pkg,
            [name |-> c.packageName \o "-" \o arch,
             description |-> "This is the " \o ARCH_MAP[arch].desc \o " binary for "
                                \o root.name \o ".",
             version |-> root.version,
             main |-> main,
             files |-> <<main>>]),
        globalProps(root))

\* lines 1083-1087 (the markdown code quotes are left out)
newReadmeContent(arch, c, root) ==
    "# " \o c.packageName \o "-" \o arch \o "\n\nThis is the "
        \o ARCH_MAP[arch].desc \o " binary for [" \o root.name \o "]("
        \o root.repository.url \o ").\n"

LicenseRequiredError == "LICENSE file is required in root dir"

\* lines 1076-1117: the entries of dirs are patched in order; the first
\* entry that cannot be patched ends the loop with its error.
RECURSIVE patchStubs(_, _, _, _, _)
patchStubs(entries, c, root, rootFiles, acc) ==
    IF entries = <<>> THEN acc
    ELSE LET arch == Head(entries)
             entry == acc.npm[arch]
             dir == "npm/" \o arch
         IN IF ~entry.isDir \/ "package.json" \notin DOMAIN entry.files
            THEN [acc EXCEPT !.error = "Cannot find module '" \o dir \o "/package.json'"]
            ELSE IF arch \notin DOMAIN ARCH_MAP
            THEN [acc EXCEPT !.error = "Cannot read properties of undefined (reading 'desc')"]
            ELSE IF "LICENSE" \notin DOMAIN rootFiles
            THEN [acc EXCEPT !.error = LicenseRequiredError]
            ELSE patchStubs(Tail(entries), c, root, rootFiles,
                    [acc EXCEPT
                        !.npm[arch].files =
                            ("LICENSE" :> rootFiles["LICENSE"]) @@
                            ("README.md" :> newReadmeContent(arch, c, root)) @@
                            ("package.json" :> patchPkg(entry.files["package.json"],
                                                        arch, c, root)) @@ @,
                        !.ops = @ \o << Copy("LICENSE", dir \o "/LICENSE"),
                                        Write(dir \o "/README.md"),
                                        Write(dir \o "/package.json"),
                                        Log("Patched: " \o c.packageName \o "-" \o arch) >>])

PatchStubs ==
    /\ pc = "patch"
    /\ LET r == patchStubs(dirs, Val(napiFinalConfig), rootPkg, fs.root,
                    [npm |-> Val(fs.npm), ops |-> <<>>, error |-> NoError])
       IN /\ fs' = [fs EXCEPT !.npm = Some(r.npm)]
          /\ ops' = ops \o r.ops
          /\ IF r.error # NoError THEN Throw(r.error) ELSE Goto("workspace")
    /\ UNCHANGED <<argv, env, fs0, run, rootPkg, cliVersion, napiFinalConfig,
                   dirs, opt>>

StubGlob == "./npm/*"

\* lines 1119-1129: './npm/*' is pushed to the packages of the workspace file.
RegisterWorkspace ==
    /\ pc = "workspace"
    /\ IF ~IsSome(fs.workspace)
       THEN /\ Throw("ENOENT: no such file or directory, open 'pnpm-workspace.yaml'")
            /\ UNCHANGED <<fs, ops>>
       ELSE /\ fs' = [fs EXCEPT !.workspace = Some(Append(Val(@), StubGlob))]
            /\ ops' = Append(ops, Write("pnpm-workspace.yaml"))
            /\ Goto("private")
    /\ UNCHANGED <<argv, env, fs0, run, rootPkg, cliVersion, napiFinalConfig,
                   dirs, opt>>

\* A faulty variant of SetRootPrivate that goes to the credential check
\* without the reinstall.
SetRootPrivateNoReinstall ==
    /\ pc = "private"
    /\ rootPkg' = Assign(rootPkg, [private |-> "true"])
    /\ fs' = [fs EXCEPT !.pkg = rootPkg']
    /\ ops' = Append(ops, Write("package.json"))
    /\ Goto("gate")
    /\ UNCHANGED <<argv, env, fs0, run, cliVersion, napiFinalConfig, dirs, opt>>

\* lines 1131-1137: the root manifest becomes private and is written back.
SetRootPrivate ==
    /\ pc = "private"
    /\ rootPkg' = Assign(rootPkg, [private |-> "true"])
    /\ fs' = [fs EXCEPT !.pkg = rootPkg']
    /\ ops' = Append(ops, Write("package.json"))
    /\ Goto("reinstall")
    /\ UNCHANGED <<argv, env, fs0, run, cliVersion, napiFinalConfig, dirs, opt>>

\* lines 1139-1141
Reinstall ==
    /\ pc = "reinstall"
    /\ RunCmd("pnpm i --no-frozen-lockfile", ".", "gate")
    /\ UNCHANGED <<argv, env, fs, fs0, run, rootPkg, cliVersion, napiFinalConfig,
                   dirs, opt>>

-----------------------------------------------------------------------------
(* publish: the credential check and the publish collaborator, lines 1147-1188 *)

\* The /i flag of the pattern: lower case of the words a line may hold.
Lower(word) ==
    CASE word = "_authToken" -> "_authtoken"
      [] word = "_AUTHTOKEN" -> "_authtoken"
      [] word = "-authToken" -> "-authtoken"
      [] word = "REGISTRY.NPMJS.COM" -> "registry.npmjs.com"
      [] OTHER -> word

Whitespace == {" ", "\t"}
\* ^\s* : the line without its leading white space.
RECURSIVE TrimStart(_)
TrimStart(line) ==
    IF line # <<>> /\ Head(line) \in Whitespace THEN TrimStart(Tail(line)) ELSE line

\* A faulty variant of isAuthLine that looks for another registry host than
\* the one the gate writes.
isAuthLineOtherHost(line) ==
    LET t == TrimStart(line)
    IN /\ Len(t) >= 5
       /\ t[1] = "//"
       /\ Lower(t[2]) = "registry.npmjs.org"
       /\ t[3] = "/:"
       /\ Lower(t[4]) \in {"_authtoken", "-authtoken"}
       /\ t[5] = "="
\* line 1154: /^\s*\/\/registry\.npmjs\.com\/:[_-]authToken=/i.test(line)
isAuthLine(line) ==
    LET t == TrimStart(line)
    IN /\ Len(t) >= 5
       /\ t[1] = "//"
       /\ Lower(t[2]) = "registry.npmjs.com"
       /\ t[3] = "/:"
       /\ Lower(t[4]) \in {"_authtoken", "-authtoken"}
       /\ t[5] = "="
hasAuthLine(lines) == \E i \in 1..Len(lines) : isAuthLine(lines[i])

TokenRequiredError == "'NPM_TOKEN' env var is required to publish, please set it"
\* A faulty variant of hasToken that takes an empty NPM_TOKEN for a token.
hasTokenDefined == IsSome(env.NPM_TOKEN)
\* lines 1164 and 1176: process.env.NPM_TOKEN?.length
hasToken == IsSome(env.NPM_TOKEN) /\ Val(env.NPM_TOKEN) # ""
\* The line appended or written, lines 1171 and 1183.
tokenLine == AuthLine(RegistryHost, "_authToken", Val(env.NPM_TOKEN))

\* lines 1148-1185.  The file is kept as the lines content.split('\n') gives:
\* appending "\n<line>\n" adds <line> and the empty last line.
PublishGate ==
    /\ pc = "gate"
    /\ IF IsSome(fs.npmrc)
       THEN IF hasAuthLine(Val(fs.npmrc))
            THEN /\ ops' = ops \o << Log("Found existing user .npmrc file"),
                                    Log("Found existing auth token") >>
                 /\ fs' = fs
                 /\ Goto("release_only")
            ELSE IF ~hasToken
            THEN /\ ops' = ops \o << Log("Found existing user .npmrc file"),
                                    Log("Didn't find existing auth token") >>
                 /\ fs' = fs
                 /\ Throw(TokenRequiredError)
            ELSE /\ ops' = ops \o << Log("Found existing user .npmrc file"),
                                    Log("Didn't find existing auth token"),
                                    AppendTo("~/.npmrc") >>
                 /\ fs' = [fs EXCEPT !.npmrc = Some(Val(@) \o <<tokenLine, EmptyLine>>)]
                 /\ Goto("release_only")
       ELSE IF ~hasToken
            THEN /\ ops' = Append(ops, Log("No user .npmrc file found, creating one"))
                 /\ fs' = fs
                 /\ Throw(TokenRequiredError)
            ELSE /\ ops' = ops \o << Log("No user .npmrc file found, creating one"),
                                    Write("~/.npmrc") >>
                 /\ fs' = [fs EXCEPT !.npmrc = Some(<<tokenLine, EmptyLine>>)]
                 /\ Goto("release_only")
    /\ UNCHANGED <<argv, env, fs0, run, rootPkg, cliVersion, napiFinalConfig,
                   dirs, opt>>

\* A faulty variant of releaseOnlyCmd that drops the tag.
releaseOnlyCmdUntagged(tag) == "changeset publish"

\* release.ts, lines 12-26: changeset publish, with --tag when a tag is given.
releaseOnlyCmd(tag) ==
    IF IsSome(tag) /\ Val(tag) # ""
    THEN "changeset publish" \o " " \o "--tag " \o Val(tag)
    ELSE "changeset publish"

\* line 1187
ReleaseOnly ==
    /\ pc = "release_only"
    /\ RunCmd(releaseOnlyCmd(argv.tag), ".", "done")
    /\ UNCHANGED <<argv, env, fs, fs0, run, rootPkg, cliVersion, napiFinalConfig,
                   dirs, opt>>

-----------------------------------------------------------------------------
(* performWasmOpt, lines 1193-1353 *)

\* A path below <root>: a directory, and a file name in it (<<>> for the
\* directory itself).
Path(dir, name) == [dir |-> dir, name |-> name]
TargetWasm == "target/wasm"
TargetWasmWeb == "target/wasm_web"
\* The directory at `dir`, undefined when there is none.
DirAt(files, dir) ==
    CASE dir = TargetWasm -> files.wasm
      [] dir = TargetWasmWeb -> files.wasmWeb
      [] OTHER -> Undefined
\* --wasm-opt's path as a path below <root>.
OptPath(path) ==
    IF path = "target/wasm" THEN Path(TargetWasm, <<>>)
    ELSE IF path = "target/wasm/index_bg.wasm" THEN Path(TargetWasm, Name2("index_bg", "wasm"))
    ELSE Path(path, <<>>)
existsSync(files, path) ==
    /\ IsSome(DirAt(files, path.dir))
    /\ path.name = <<>> \/ path.name \in DOMAIN Val(DirAt(files, path.dir))
isDirectory(files, path) == existsSync(files, path) /\ path.name = <<>>

\* String.prototype.endsWith and includes on token sequences.
EndsWith(name, suffix) ==
    Len(name) >= Len(suffix)
        /\ SubSeq(name, Len(name) - Len(suffix) + 1, Len(name)) = suffix
Includes(name, part) ==
    \E i \in 1..Len(name) :
        i + Len(part) - 1 <= Len(name) /\ SubSeq(name, i, i + Len(part) - 1) = part
DotWasm == <<".", "wasm">>
DotJs == <<".", "js">>
DotDts == <<".", "d", ".", "ts">>

\* lines 1203-1252: the advisory about wasm-pack's own wasm-opt.  Cargo.toml
\* is absent, plain (no workspace, no wasm-opt entry), configured, or there
\* but unreadable; reading an unreadable file throws.
tipsError ==
    IF IsSome(env.VARY_SKIP_WASM_OPT_TIPS) /\ Val(env.VARY_SKIP_WASM_OPT_TIPS) # ""
    THEN NoError
    ELSE IF fs.cargo = "unreadable" THEN "EACCES: permission denied, open 'Cargo.toml'"
    ELSE NoError
tipsLog ==
    IF IsSome(env.VARY_SKIP_WASM_OPT_TIPS) /\ Val(env.VARY_SKIP_WASM_OPT_TIPS) # ""
    THEN <<>>
    ELSE IF fs.cargo = "plain"
    THEN <<Log("Cannot find the 'wasm-opt' config in Cargo.toml, please set:")>>
    ELSE <<>>

\* lines 1199-1252: the advisory runs outside the try block.
OptTips ==
    /\ pc = "opt_tips"
    /\ ops' = ops \o <<Log("Start wasm opt ...")>> \o tipsLog
    /\ IF tipsError # NoError THEN Throw(tipsError) ELSE Goto("opt_find")
    /\ UNCHANGED <<argv, env, fs, fs0, run, rootPkg, cliVersion, napiFinalConfig,
                   dirs, opt>>

\* lines 1346-1352: runOpt's error is caught and printed, and the pass
\* returns to its caller.
OptCaught(e) == <<Log("Wasm opt failed, Error: " \o e), Log("Wasm opt done")>>
OptReturned == <<Log("Wasm opt done")>>

\* lines 1261-1297: the .wasm files of the directories searched, then the
\* file given.
wasmOutputDir(path) ==
    (IF IsSome(path) /\ Val(path) # "" THEN <<>> ELSE <<TargetWasm, TargetWasmWeb>>)
    \o (IF IsSome(path) /\ isDirectory(fs, OptPath(Val(path)))
        THEN <<OptPath(Val(path)).dir>> ELSE <<>>)
wasmFilesOf(dir) ==
    IF IsSome(DirAt(fs, dir))
    THEN SetToSeq({Path(dir, n) : n \in {m \in DOMAIN Val(DirAt(fs, dir)) : EndsWith(m, DotWasm)}})
    ELSE <<>>
RECURSIVE wasmFilesIn(_)
wasmFilesIn(dirList) ==
    IF dirList = <<>> THEN <<>>
    ELSE wasmFilesOf(Head(dirList)) \o wasmFilesIn(Tail(dirList))
wasmFilePath(path) ==
    wasmFilesIn(wasmOutputDir(path))
    \o (IF IsSome(path) /\ existsSync(fs, OptPath(Val(path)))
           /\ ~isDirectory(fs, OptPath(Val(path)))
        THEN <<OptPath(Val(path))>> ELSE <<>>)

\* A faulty variant of OptFind that goes on to the tool when it found no file.
OptFindNoEarlyReturn ==
    /\ pc = "opt_find"
    /\ IF IsSome(env.VARY_SKIP_WASM_OPT) /\ Val(env.VARY_SKIP_WASM_OPT) # ""
       THEN /\ ops' = ops \o OptReturned
            /\ opt' = opt
            /\ Goto(opt.ret)
       ELSE IF IsSome(opt.path) /\ Val(opt.path) # ""
               /\ ~existsSync(fs, OptPath(Val(opt.path)))
       THEN /\ ops' = ops \o OptCaught("The specified wasm file or dir does not exist")
            /\ opt' = opt
            /\ Goto(opt.ret)
       ELSE /\ ops' = ops
            /\ opt' = [opt EXCEPT !.files = wasmFilePath(opt.path)]
            /\ Goto("opt_fetch")
    /\ UNCHANGED <<argv, env, fs, fs0, run, rootPkg, cliVersion, napiFinalConfig, dirs>>

\* lines 1257-1301
OptFind ==
    /\ pc = "opt_find"
    /\ IF IsSome(env.VARY_SKIP_WASM_OPT) /\ Val(env.VARY_SKIP_WASM_OPT) # ""
       THEN /\ ops' = ops \o OptReturned
            /\ opt' = opt
            /\ Goto(opt.ret)
       ELSE IF IsSome(opt.path) /\ Val(opt.path) # ""
               /\ ~existsSync(fs, OptPath(Val(opt.path)))
       THEN /\ ops' = ops \o OptCaught("The specified wasm file or dir does not exist")
            /\ opt' = opt
            /\ Goto(opt.ret)
       ELSE IF wasmFilePath(opt.path) = <<>>
       THEN /\ ops' = ops \o <<Log("Cannot find wasm file, skip wasm-opt")>> \o OptReturned
            /\ opt' = opt
            /\ Goto(opt.ret)
       ELSE /\ ops' = ops
            /\ opt' = [opt EXCEPT !.files = wasmFilePath(opt.path)]
            /\ Goto("opt_fetch")
    /\ UNCHANGED <<argv, env, fs, fs0, run, rootPkg, cliVersion, napiFinalConfig, dirs>>

CacheDir == "target/.wasm-cache"
Archive == "binaryen.tar.gz"
OptBin == "wasm-opt"
platformError ==
    IF env.platform \notin {"darwin", "linux"}
    THEN "Unsupported platform: " \o env.platform
    ELSE IF env.arch \notin {"x64", "arm64"} THEN "Unsupported arch: " \o env.arch
    ELSE NoError

\* lines 1303-1337: the cache directory is made, and when the archive is not
\* there it is downloaded and unpacked.
OptFetch ==
    /\ pc = "opt_fetch"
    /\ IF platformError # NoError
       THEN /\ ops' = ops \o OptCaught(platformError)
            /\ fs' = fs
            /\ Goto(opt.ret)
       ELSE LET made == IF IsSome(fs.cache) THEN <<>> ELSE <<Mkdir(CacheDir)>>
                had == IF IsSome(fs.cache) THEN Val(fs.cache) ELSE {}
            IN IF Archive \in had
               THEN /\ ops' = ops \o made
                    /\ fs' = fs
                    /\ Goto("opt_run")
               ELSE \E curl \in ExitCodes, tar \in ExitCodes :
                    IF DebugVary
                    THEN /\ ops' = ops \o made \o <<Log("curl"), Log("tar")>>
                         /\ fs' = [fs EXCEPT !.cache = Some(had)]
                         /\ Goto("opt_run")
                    ELSE IF curl # 0
                    THEN /\ ops' = ops \o made \o <<Exec("curl", ".")>>
                                \o OptCaught("Command failed: curl")
                         /\ fs' = [fs EXCEPT !.cache = Some(had)]
                         /\ Goto(opt.ret)
                    ELSE IF tar # 0
                    THEN /\ ops' = ops \o made \o <<Exec("curl", "."), Exec("tar", ".")>>
                                \o OptCaught("Command failed: tar")
                         /\ fs' = [fs EXCEPT !.cache = Some(had \cup {Archive})]
                         /\ Goto(opt.ret)
                    ELSE /\ ops' = ops \o made \o <<Exec("curl", "."), Exec("tar", ".")>>
                         /\ fs' = [fs EXCEPT !.cache = Some(had \cup {Archive, OptBin})]
                         /\ Goto("opt_run")
    /\ UNCHANGED <<argv, env, fs0, run, rootPkg, cliVersion, napiFinalConfig, dirs, opt>>

\* lines 1341-1343: one wasm-opt command per file found.
optCmd(file) ==
    IF DebugVary THEN Log("wasm-opt -Oz")
    ELSE [op |-> "exec", cmd |-> "wasm-opt -Oz", cwd |-> ".", file |-> file]
RECURSIVE optTasks(_)
optTasks(files) ==
    IF files = <<>> THEN <<>>
    ELSE <<optCmd(Head(files))>> \o optTasks(Tail(files))

\* `files` with the files of `done` optimized in place.
Optimized(files, done) ==
    [files EXCEPT
        !.wasm = IF IsSome(@)
                 THEN Some([n \in DOMAIN Val(@) |->
                        IF Path(TargetWasm, n) \in done THEN "optimized" ELSE Val(@)[n]])
                 ELSE @,
        !.wasmWeb = IF IsSome(@)
                    THEN Some([n \in DOMAIN Val(@) |->
                        IF Path(TargetWasmWeb, n) \in done THEN "optimized" ELSE Val(@)[n]])
                    ELSE @]

\* lines 1338-1344: one wasm-opt process is started per file, all at once,
\* and the pass waits on Promise.all of them.  Under DEBUG_VARY cmd only
\* logs, and the wait is over at once.
OptRun ==
    /\ pc = "opt_run"
    /\ IF DebugVary
       THEN /\ ops' = ops \o optTasks(opt.files) \o OptReturned
            /\ opt' = opt
            /\ Goto(opt.ret)
       ELSE /\ ops' = ops \o optTasks(opt.files)
            /\ opt' = [opt EXCEPT !.running = Range(opt.files)]
            /\ Goto("opt_wait")
    /\ UNCHANGED <<argv, env, fs, fs0, run, rootPkg, cliVersion, napiFinalConfig, dirs>>

\* lines 1342-1352, utils/cmd.ts: a wasm-opt process exits, having
\* optimized its file in place or failed (it cannot succeed without the
\* binary).  Promise.all rejects at the first failure, with the other
\* processes still running, and resolves when the last one succeeded; either
\* way the pass logs and returns to its caller.  A process that outlives the
\* pass exits later, beside whatever the run is doing by then.
OptTaskExit ==
    /\ opt.running # {}
    /\ \E file \in opt.running, code \in ExitCodes :
        /\ code = 0 => OptBin \in Val(fs.cache)
        /\ fs' = IF code = 0 THEN Optimized(fs, {file}) ELSE fs
        /\ opt' = [opt EXCEPT !.running = @ \ {file}]
        /\ IF pc # "opt_wait"
           THEN UNCHANGED <<pc, err, ops>>
           ELSE IF code # 0
           THEN /\ ops' = ops \o OptCaught("Command failed: wasm-opt")
                /\ Goto(opt.ret)
           ELSE IF opt.running = {file}
           THEN /\ ops' = ops \o OptReturned
                /\ Goto(opt.ret)
           ELSE UNCHANGED <<pc, err, ops>>
    /\ UNCHANGED <<argv, env, fs0, run, rootPkg, cliVersion, napiFinalConfig, dirs>>

-----------------------------------------------------------------------------
(* The wasm modes (--wasm, --napi-wasm), lines 782-983 *)

ExclusiveError == "You cannot use --wasm and --napi-wasm together"
RuntimeRequiredError == "Please install @napi-rs/wasm-runtime"
allRootDeps(pkg) ==
    Assign(IF Has(pkg, "dependencies") THEN pkg.dependencies ELSE EmptyObject,
           IF Has(pkg, "devDependencies") THEN pkg.devDependencies ELSE EmptyObject)

\* A faulty variant of wasmFlagsError that lets the two flags through.
wasmFlagsErrorLax(args, pkg) ==
    IF args.napiWasm /\ ~TruthyStr(allRootDeps(pkg), NAPI_PKGS.wasmRuntime)
    THEN RuntimeRequiredError
    ELSE NoError

\* lines 784-807: the two flags exclude each other, and --napi-wasm needs
\* the wasm runtime among the root's dependencies.
wasmFlagsError(args, pkg) ==
    IF args.wasm /\ args.napiWasm THEN ExclusiveError
    ELSE IF args.napiWasm /\ ~TruthyStr(allRootDeps(pkg), NAPI_PKGS.wasmRuntime)
    THEN RuntimeRequiredError
    ELSE NoError

WasmFlags ==
    /\ pc = "wasm_flags"
    /\ IF wasmFlagsError(argv, rootPkg) # NoError
       THEN Throw(wasmFlagsError(argv, rootPkg))
       ELSE Goto("wasm_build")
    /\ UNCHANGED <<argv, env, fs, fs0, run, ops, rootPkg, cliVersion,
                   napiFinalConfig, dirs, opt>>

\* line 809
WasmBuild ==
    /\ pc = "wasm_build"
    /\ RunCmd("pnpm build:wasm", ".", "wasm_helpers")
    /\ UNCHANGED <<argv, env, fs, fs0, run, rootPkg, cliVersion, napiFinalConfig,
                   dirs, opt>>

\* lines 811-819: the loader and the installer are copied over the root's
\* index.js and postinstall.js.
WasmHelpers ==
    /\ pc = "wasm_helpers"
    /\ fs' = [fs EXCEPT !.root =
                ("index.js" :> "helper") @@ ("postinstall.js" :> "helper") @@ @]
    /\ ops' = ops \o << Copy("helpers/napi/index.js", "index.js"),
                        Copy("helpers/napi/postinstall.js", "postinstall.js") >>
    /\ Goto("wasm_checks")
    /\ UNCHANGED <<argv, env, fs0, run, rootPkg, cliVersion, napiFinalConfig,
                   dirs, opt>>

mustHasFiles == <<"binding.js", "index.js", "postinstall.js">>
\* lines 820-864: the error of the first failing check, "" when all pass.
wasmChecksError(pkg, files) ==
    IF "binding.js" \notin DOMAIN files.root
    THEN "The 'binding.js' file does not exist."
    ELSE IF ~Has(pkg, "files")
    THEN "Cannot read properties of undefined (reading 'includes')"
    ELSE IF ~(Range(mustHasFiles) \subseteq Range(pkg.files))
    THEN "package.json#files must includes binding.js, index.js, postinstall.js"
    ELSE IF ~(Has(pkg, "scripts") /\ TruthyStr(pkg.scripts, "postinstall"))
    THEN "package.json must include the 'scripts.postinstall' for wasm fallback"
    ELSE IF ~IsSome(files.wasm)
    THEN "The 'target/wasm' dir does not exist. Please build first"
    ELSE NoError

\* lines 820-869: the checks, then the optimization pass over target/wasm.
WasmChecks ==
    /\ pc = "wasm_checks"
    /\ IF wasmChecksError(rootPkg, fs) # NoError
       THEN /\ Throw(wasmChecksError(rootPkg, fs))
            /\ opt' = opt
       ELSE /\ opt' = [path |-> Some("target/wasm"), ret |-> "wasm_pack", files |-> <<>>,
                         running |-> {}]
            /\ Goto("opt_tips")
    /\ UNCHANGED <<argv, env, fs, fs0, run, ops, rootPkg, cliVersion,
                   napiFinalConfig, dirs>>

\* basename(file) of a path.
Basename(path) == path.name
\* lines 878-884 and 1008-1012: the outputs copied in the plain modes.
plainOutputs(dir, content) ==
    SetToSeq({Path(dir, n) : n \in {m \in DOMAIN content :
                EndsWith(m, DotWasm) \/ EndsWith(m, DotJs) \/ EndsWith(m, DotDts)}})

\* resolveWasiOutput, lines 1365-1427.  Of several files of one kind the
\* one read last is kept; the order readdirSync gives is the platform's, so
\* any of them may be the one.
wasiWorkers(dir, content) ==
    {Path(dir, n) : n \in {m \in DOMAIN content : Includes(m, <<"wasi", "-", "worker">>)}}
wasiWasms(dir, content) ==
    {Path(dir, n) : n \in {m \in DOMAIN content :
        ~Includes(m, <<"wasi", "-", "worker">>) /\ EndsWith(m, DotWasm)}}
wasiNodeEntries(dir, content) ==
    {Path(dir, n) : n \in {m \in DOMAIN content :
        /\ ~Includes(m, <<"wasi", "-", "worker">>) /\ ~EndsWith(m, DotWasm)
        /\ EndsWith(m, <<".", "wasi", ".", "cjs">>)}}
wasiBrowserEntries(dir, content) ==
    {Path(dir, n) : n \in {m \in DOMAIN content :
        /\ ~Includes(m, <<"wasi", "-", "worker">>) /\ ~EndsWith(m, DotWasm)
        /\ ~EndsWith(m, <<".", "wasi", ".", "cjs">>)
        /\ EndsWith(m, <<".", "wasi", "-", "browser", ".", "js">>)}}
wasiError(dir, content) ==
    IF wasiWorkers(dir, content) = {}
    THEN "Not found wasi worker files, like name.mjs"
    ELSE IF wasiWasms(dir, content) = {}
    THEN "Not found wasi file, like name.wasm"
    ELSE IF wasiNodeEntries(dir, content) = {}
    THEN "Not found wasi cjs entry file, like name.wasi.cjs"
    ELSE IF wasiBrowserEntries(dir, content) = {}
    THEN "Not found wasi browser entry file, like name.wasi-browser.js"
    ELSE NoError
\* The outputs resolveWasiOutput may return; index.d.ts is named without
\* a directory (dir ""), so copying it looks in the working directory,
\* <root>.
resolveWasiOutput(dir, content) ==
    { [wasiWorker |-> SetToSeq(wasiWorkers(dir, content)), wasm |-> w,
       entryForNode |-> n, entryForBrowser |-> b,
       allFiles |-> SetToSeq(wasiWorkers(dir, content))
                        \o <<w, n, b, Path("", Name3("index", "d", "ts"))>>] :
        w \in wasiWasms(dir, content), n \in wasiNodeEntries(dir, content),
        b \in wasiBrowserEntries(dir, content) }

\* copyFileSync of each output to the publish directory under its basename;
\* a source that does not exist throws.
SourceOf(files, path) ==
    IF path.dir = ""
    THEN IF "index.d.ts" \in DOMAIN files.root /\ path.name = Name3("index", "d", "ts")
         THEN Some(files.root["index.d.ts"]) ELSE Undefined
    ELSE IF existsSync(files, path) THEN Some(Val(DirAt(files, path.dir))[path.name])
    ELSE Undefined
RECURSIVE copyOutputs(_, _, _, _)
copyOutputs(outputs, files, to, acc) ==
    IF outputs = <<>> THEN acc
    ELSE LET file == Head(outputs)
         IN IF ~IsSome(SourceOf(files, file))
            THEN [acc EXCEPT !.error = "ENOENT: no such file or directory, copyfile"]
            ELSE copyOutputs(Tail(outputs), files, to,
                    [acc EXCEPT !.dir = (Basename(file) :> Val(SourceOf(files, file))) @@ @,
                                !.ops = Append(@, Copy(file, to))])

WasmPublishDir == "target/wasm_publish"
WasmWebPublishDir == "target/wasm_web_publish"
EmptyDir == [n \in {} |-> ""]
Relative(name) == Path("", name)

\* lines 898-903, 1018-1023
getWasmName(pkg, subPackagesPrefix) ==
    IF Has(pkg, "vary") /\ TruthyStr(pkg.vary, "wasmName") THEN pkg.vary.wasmName
    ELSE subPackagesPrefix \o "-wasm"
getWasmWebName(pkg, subPackagesPrefix) ==
    IF Has(pkg, "vary") /\ TruthyStr(pkg.vary, "wasmWebName") THEN pkg.vary.wasmWebName
    ELSE subPackagesPrefix \o "-wasm-web"

\* lines 909-929, 1029-1033 (the markdown code quotes are left out)
generateReadmeContent(isReleaseWasm, wasmName, pkg) ==
    "# " \o wasmName \o (IF isReleaseWasm THEN "" ELSE " (wasi)\n\n> This package "
        \o "can be used for both Node.js and Web envs.")
        \o "\n\nThis is the WASM binary for [" \o pkg.name \o "](" \o pkg.repository.url \o ").\n"
webReadmeContent(wasmName, pkg) ==
    "# " \o wasmName \o "\n\nThis is the WASM (Web) binary for ["
        \o pkg.name \o "](" \o pkg.repository.url \o ").\n"

WasmPublishKeys ==
    {"version", "description", "author", "homepage", "repository", "keywords",
     "license", "publishConfig"}
\* lines 935-962: the manifest of the wasm package; `out` is what
\* resolveWasiOutput returned.
wasmPkg(pkg, isReleaseNapiWasm, out, wasmName) ==
    Assign(Assign(Pick(pkg, WasmPublishKeys),
        IF isReleaseNapiWasm
        THEN [main |-> out.entryForNode, browser |-> out.entryForBrowser,
              __wasi |-> TRUE,
              dependencies |-> (NAPI_PKGS.wasmRuntime :>
                                    allRootDeps(pkg)[NAPI_PKGS.wasmRuntime])]
        ELSE [main |-> Relative(Name2("index", "js"))]),
        [types |-> Relative(Name3("index", "d", "ts")), name |-> wasmName])
\* lines 1038-1052
wasmWebPkg(pkg, wasmName) ==
    Assign(Pick(pkg, WasmPublishKeys),
        [module |-> Relative(Name2("index", "js")),
         types |-> Relative(Name3("index", "d", "ts")), name |-> wasmName])

\* lines 931-977 and 1034-1067: README.md and package.json are written, then
\* LICENSE is required and copied.
finishPackage(r, to, readme, manifest, root) ==
    LET written == (Name2("README", "md") :> readme)
                        @@ (Name2("package", "json") :> manifest) @@ r.dir
        writes == r.ops \o <<Write(to \o "/README.md"), Write(to \o "/package.json")>>
    IN IF "LICENSE" \notin DOMAIN root
       THEN [dir |-> written, ops |-> writes, error |-> LicenseRequiredError]
       ELSE [dir |-> (Name1("LICENSE") :> root["LICENSE"]) @@ written,
             ops |-> Append(writes, Copy("LICENSE", to \o "/LICENSE")),
             error |-> NoError]

\* lines 870-977: the publish directory is made anew, the outputs are copied
\* into it, then the README, the manifest and the LICENSE.
WasmPack ==
    /\ pc = "wasm_pack"
    /\ LET content == Val(fs.wasm)
           c == Val(napiFinalConfig)
           start == [dir |-> EmptyDir, ops |-> <<>>, error |-> NoError]
           recreate == RecreateOps(IsSome(fs.wasmPublish), WasmPublishDir)
           wasmName == getWasmName(rootPkg, c.packageName)
       IN IF argv.napiWasm /\ wasiError(TargetWasm, content) # NoError
          THEN /\ fs' = [fs EXCEPT !.wasmPublish = Some(EmptyDir)]
               /\ ops' = ops \o recreate
               /\ Throw(wasiError(TargetWasm, content))
          ELSE \E out \in IF argv.napiWasm THEN resolveWasiOutput(TargetWasm, content)
                          ELSE {[allFiles |-> plainOutputs(TargetWasm, content)]} :
                LET copied == copyOutputs(out.allFiles, fs, WasmPublishDir, start)
                    r == IF copied.error # NoError THEN copied
                         ELSE finishPackage(copied, WasmPublishDir,
                                generateReadmeContent(argv.wasm, wasmName, rootPkg),
                                wasmPkg(rootPkg, argv.napiWasm, out, wasmName), fs.root)
                IN /\ fs' = [fs EXCEPT !.wasmPublish = Some(r.dir)]
                   /\ ops' = ops \o recreate \o r.ops
                   /\ IF r.error # NoError THEN Throw(r.error) ELSE Goto("wasm_publish")
    /\ UNCHANGED <<argv, env, fs0, run, rootPkg, cliVersion, napiFinalConfig, dirs, opt>>

\* lines 978-982
WasmPublish ==
    /\ pc = "wasm_publish"
    /\ RunCmd(NpmPublish, WasmPublishDir, "done")
    /\ UNCHANGED <<argv, env, fs, fs0, run, rootPkg, cliVersion, napiFinalConfig,
                   dirs, opt>>

-----------------------------------------------------------------------------
(* The wasm-web mode (--wasm-web), lines 985-1073 *)

\* line 989
WebBuild ==
    /\ pc = "web_build"
    /\ RunCmd("pnpm build:wasm:web", ".", "web_check")
    /\ UNCHANGED <<argv, env, fs, fs0, run, rootPkg, cliVersion, napiFinalConfig,
                   dirs, opt>>

\* lines 990-1001: the build output must exist; then the optimization pass.
WebCheck ==
    /\ pc = "web_check"
    /\ IF ~IsSome(fs.wasmWeb)
       THEN /\ Throw("The 'target/wasm_web' dir does not exist. Please build first")
            /\ opt' = opt
       ELSE /\ opt' = [path |-> Some("target/wasm_web"), ret |-> "web_pack", files |-> <<>>,
                         running |-> {}]
            /\ Goto("opt_tips")
    /\ UNCHANGED <<argv, env, fs, fs0, run, ops, rootPkg, cliVersion,
                   napiFinalConfig, dirs>>

\* lines 1002-1067
WebPack ==
    /\ pc = "web_pack"
    /\ LET c == Val(napiFinalConfig)
           start == [dir |-> EmptyDir, ops |-> <<>>, error |-> NoError]
           recreate == RecreateOps(IsSome(fs.wasmWebPublish), WasmWebPublishDir)
           wasmName == getWasmWebName(rootPkg, c.packageName)
           copied == copyOutputs(plainOutputs(TargetWasmWeb, Val(fs.wasmWeb)), fs,
                                 WasmWebPublishDir, start)
           r == finishPackage(copied, WasmWebPublishDir,
                    webReadmeContent(wasmName, rootPkg),
                    wasmWebPkg(rootPkg, wasmName), fs.root)
       IN /\ fs' = [fs EXCEPT !.wasmWebPublish = Some(r.dir)]
          /\ ops' = ops \o recreate \o r.ops
          /\ IF r.error # NoError THEN Throw(r.error) ELSE Goto("web_publish")
    /\ UNCHANGED <<argv, env, fs0, run, rootPkg, cliVersion, napiFinalConfig, dirs, opt>>

\* lines 1068-1072
WebPublish ==
    /\ pc = "web_publish"
    /\ RunCmd(NpmPublish, WasmWebPublishDir, "done")
    /\ UNCHANGED <<argv, env, fs, fs0, run, rootPkg, cliVersion, napiFinalConfig,
                   dirs, opt>>

Next ==
    \/ Entry
    \/ DetectVersion
    \/ AssertRootFields
    \/ NormalizeConfig
    \/ ValidateTargets
    \/ EnsureStubs
    \/ RootBuild
    \/ RootDist
    \/ RootCopyFiles
    \/ RootPublish
    \/ PatchStubs
    \/ RegisterWorkspace
    \/ SetRootPrivate
    \/ Reinstall
    \/ PublishGate
    \/ ReleaseOnly
    \/ WasmFlags
    \/ WasmBuild
    \/ WasmHelpers
    \/ WasmChecks
    \/ WasmPack
    \/ WasmPublish
    \/ WebBuild
    \/ WebCheck
    \/ WebPack
    \/ WebPublish
    \/ OptTips
    \/ OptFind
    \/ OptFetch
    \/ OptRun
    \/ OptTaskExit

Spec == Init /\ [][Next]_vars

-----------------------------------------------------------------------------
(* The same command run again on the repository an earlier run left *)

\* A further invocation of napiPublish with the same command line and
\* environment: a new process, which starts from the files as they are.
NewRun ==
    /\ pc \in {"done", "failed"}
    /\ opt.running = {}
    /\ run < MaxRuns
    /\ fs0' = fs
    /\ run' = run + 1
    /\ pc' = "start"
    /\ err' = NoError
    /\ ops' = <<>>
    /\ rootPkg' = EmptyObject
    /\ cliVersion' = [isV2 |-> FALSE, isV3 |-> FALSE]
    /\ napiFinalConfig' = NoConfig
    /\ dirs' = <<>>
    /\ opt' = NoOpt
    /\ UNCHANGED <<argv, env, fs>>

\* The repositories run again: the baseline, and what bears on a second run.
RerunDeviations ==
    { [tag |-> Undefined],
      [npm |-> Some(EmptyObject)],
      [npm |-> Some(FreshStubs({"linux-x64-gnu"}))],
      [dist |-> Some("stale.js" :> "stale")],
      [workspace |-> Some(<<"packages/*", "./npm/*">>)],
      [npmrc |-> Some(<<OtherLine, EmptyLine>>), token |-> Some("secret")],
      [npmrc |-> Undefined, token |-> Some("secret")],
      [npmrc |-> Undefined],
      [cache |-> Some({"binaryen.tar.gz"})],
      [wasmOpt |-> WasmOptArg(TRUE, Undefined)],
      [wasmOpt |-> WasmOptArg(TRUE, Some("target/wasm"))],
      [debug |-> Some("1")] }

InitRerun ==
    \E d \in RerunDeviations, flags \in FlagSets :
        LET w == Assign(BaseWorld, d)
        IN StartOfRun(MkArgv(flags, w), MkEnv(w), MkFs(w), 1)

NextRerun ==
    \/ Next
    \/ NewRun

SpecRerun == InitRerun /\ [][NextRerun]_vars

-----------------------------------------------------------------------------
(* Config normalization over the shapes of package.json#napi *)

\* The lists of at most n targets over a supported and an unsupported triple.
RECURSIVE TargetLists(_)
TargetLists(n) ==
    IF n = 0 THEN {<<>>}
    ELSE TargetLists(n - 1)
            \cup {Append(l, t) : l \in TargetLists(n - 1), t \in {LinuxX64, RiscV}}
Optional(S) == {Undefined} \cup {Some(v) : v \in S}

\* package.json#napi in the legacy shape: every key given or not, defaults
\* true, false, null or absent.
NapiV2Shapes ==
    { NapiV2(name, package, triples) :
        name \in Optional({BinaryName}),
        package \in Optional({[name |-> PackageName]}),
        triples \in Optional({ Triples(defaults, additional) :
            defaults \in Optional({"true", "false", "null"}),
            additional \in Optional(TargetLists(MaxTargets)) }) }
\* ... and in the current shape.
NapiV3Shapes ==
    { NapiV3(binaryName, packageName, targets) :
        binaryName \in Optional({BinaryName}),
        packageName \in Optional({PackageName}),
        targets \in Optional(TargetLists(MaxTargets)) }

InitNorm ==
    \E cli \in {CliV3, CliV2, CliV20, CliV1},
       napi \in Optional(NapiV2Shapes \cup NapiV3Shapes) :
        LET w == Assign(BaseWorld, [cli |-> Some(cli), napi |-> napi])
        IN StartOfRun(MkArgv([root |-> FALSE, wasm |-> FALSE, wasmWeb |-> FALSE,
                              napiWasm |-> FALSE], w), MkEnv(w), MkFs(w), 1)

\* napiPublish up to the normalized configuration and its validation.
NextNorm ==
    \/ Entry
    \/ DetectVersion
    \/ AssertRootFields
    \/ NormalizeConfig
    \/ ValidateTargets

SpecNorm == InitNorm /\ [][NextNorm]_vars

-----------------------------------------------------------------------------
(* The init command, init.ts *)

\* The shortcut commands init sets.  The filter of the build script is
\* ./packages in init.ts and under pnpm 6, and './packages/**' under a
\* later pnpm in the revision that asks pnpm for its version.
PnpmVersions == {"6", "7"}
DefaultNames ==
    <<"push", "vp", "release", "release:only", "release:quick", "clean:output", "build">>
DEFAULT_COMMADS(pnpmVersion) ==
    [n \in Range(DefaultNames) |->
        IF n = "build"
        THEN "pnpm -r --filter "
                \o (IF pnpmVersion = "6" THEN "./packages" ELSE "'./packages/**'")
                \o " run build"
        ELSE "vary " \o n]

\* A faulty variant of init that sets every shortcut command, present or not.
initOverwriting ==
    /\ pc = "start"
    /\ IF ~IsSome(fs.packageJson)
       THEN /\ Throw("package.json not found !")
            /\ UNCHANGED <<fs, ops>>
       ELSE \E v \in PnpmVersions :
            LET pkg == Val(fs.packageJson)
                scripts == IF Has(pkg, "scripts") THEN pkg.scripts ELSE EmptyObject
            IN /\ fs' = [fs EXCEPT !.packageJson =
                            Some(Assign(pkg, [scripts |->
                                    Assign(scripts, DEFAULT_COMMADS(v))]))]
               /\ ops' = Append(ops, Write("package.json"))
               /\ Goto("done")
    /\ UNCHANGED <<argv, env, fs0, run, rootPkg, cliVersion, napiFinalConfig,
                   dirs, opt>>

\* init, lines 20-38: every shortcut command the scripts lack (absent or
\* empty) is set, the others are reported, and the manifest is written back.
init ==
    /\ pc = "start"
    /\ IF ~IsSome(fs.packageJson)
       THEN /\ Throw("package.json not found !")
            /\ UNCHANGED <<fs, ops>>
       ELSE \E v \in PnpmVersions :
            LET pkg == Val(fs.packageJson)
                scripts == IF Has(pkg, "scripts") THEN pkg.scripts ELSE EmptyObject
                unset == {n \in Range(DefaultNames) : ~TruthyStr(scripts, n)}
            IN /\ fs' = [fs EXCEPT !.packageJson =
                            Some(Assign(pkg, [scripts |->
                                    Assign(scripts, Pick(DEFAULT_COMMADS(v), unset))]))]
               /\ ops' = ops
                    \o [i \in 1..Len(DefaultNames) |->
                            IF DefaultNames[i] \in unset
                            THEN Log("Set " \o DefaultNames[i] \o " command success")
                            ELSE Log("Command " \o DefaultNames[i] \o " existed")]
                    \o <<Write("package.json")>>
               /\ Goto("done")
    /\ UNCHANGED <<argv, env, fs0, run, rootPkg, cliVersion, napiFinalConfig,
                   dirs, opt>>

\* The repositories init is run in: no package.json, one without scripts,
\* and scripts that lack, leave empty or define some of the shortcut
\* commands and a command of their own.
InitOfInit ==
    \E m \in {Undefined, Some([name |-> RootName, version |-> RootVersion])}
            \cup {Some([name |-> RootName, version |-> RootVersion, scripts |-> sc]) :
                    sc \in UNION {[names -> {"", "custom"}] :
                        names \in SUBSET {"push", "build", "release:only", "test"}}} :
        StartOfRun(EmptyObject, EmptyObject, [packageJson |-> m], 1)

NextInit ==
    \/ init
    \/ NewRun

SpecInit == InitOfInit /\ [][NextInit]_vars

-----------------------------------------------------------------------------
(* Properties *)

\* The invocation has got as far as choosing its release mode: the
\* configuration is normalized, its targets are in the catalog, and the
\* stub step is behind.
ModeReached ==
    /\ IsSome(napiFinalConfig)
    /\ Range(Val(napiFinalConfig).targets) \subseteq Range(allSupportTargetList)
    /\ pc \notin {"validate", "stubs"}

\* A command that uploads to the registry.
IsPublish(o) ==
    o.op = "exec" /\ o.cmd \in {NpmPublish, releaseOnlyCmd(argv.tag)}
NothingPublished == \A i \in 1..Len(ops) : ~IsPublish(ops[i])
\* What the credential check leaves in ops when it lets the run go on.
GatePassed(o) ==
    \/ o.op = "log" /\ o.msg = "Found existing auth token"
    \/ o.op \in {"append", "write"} /\ o.path = "~/.npmrc"

\* C1: once the normalized configuration holds a target that is not a
\* targetName of the catalog, a run without --wasm-opt ends in validation
\* with the error "Unsupported platform", and then no file or directory has
\* been created, written or deleted and no external command has been run.
UnsupportedTargetFailsClean ==
    ( /\ ~argv.wasmOpt.given
      /\ IsSome(napiFinalConfig)
      /\ \E i \in 1..Len(Val(napiFinalConfig).targets) :
            \A k \in DOMAIN ARCH_MAP :
                ARCH_MAP[k].targetName # Val(napiFinalConfig).targets[i]
      /\ pc # "validate" )
    => /\ pc = "failed"
       /\ err = "Unsupported platform"
       /\ fs = fs0
       /\ Mutations(ops) = <<>>
       /\ Execs(ops) = <<>>
\* A run failed in validation on a list holding a supported and an
\* unsupported target, in a repository with no npm directory.
UnsupportedTargetFailed ==
    /\ pc = "failed"
    /\ err = "Unsupported platform"
    /\ IsSome(napiFinalConfig)
    /\ Val(napiFinalConfig).targets = <<LinuxX64, RiscV>>
    /\ ~IsSome(fs.npm)
    /\ ~argv.wasmOpt.given

\* C2: whenever a registry publish command has been invoked, in any release
\* mode, the credential check has let the run through earlier in that run.
GatePrecedesEveryPublish ==
    \A i \in 1..Len(ops) :
        IsPublish(ops[i]) => \E j \in 1..(i - 1) : GatePassed(ops[j])

RootWithoutFiles ==
    argv.root /\ ~argv.wasmOpt.given /\ ~NonEmptyArr(fs0.pkg, "files")
IsCopy(o) == o.op = "copy"
\* C3 as claimed: with --root and an empty or absent files list, dist is
\* neither created nor deleted nor written into, and nothing is published.
FilesRequiredBeforeDist ==
    RootWithoutFiles
    => /\ fs.dist = fs0.dist
       /\ \A i \in 1..Len(ops) : ops[i].op \in MutationOps => ops[i].path # "dist"
       /\ NothingPublished
\* C3, amended: with --root and an empty or absent files list the run never
\* gets to publish; once dist has been made anew the run is at the files
\* check or has failed with the files-required error, and dist holds its
\* generated manifest and nothing else, no file having been copied.
FilesRequiredBeforeCopy ==
    RootWithoutFiles
    => /\ NothingPublished
       /\ pc \notin {"root_publish", "done"}
       /\ (ModeReached /\ pc \notin {"root_build", "root_dist"})
            => /\ pc = "root_files" \/ (pc = "failed" /\ err \in
                    {FilesRequiredError, "Command failed: pnpm build"})
               /\ \A i \in 1..Len(ops) : ~IsCopy(ops[i])
       /\ (pc = "failed" /\ err = FilesRequiredError)
            => /\ IsSome(fs.dist)
               /\ DOMAIN Val(fs.dist) = {"package.json"}
\* The run failed on the empty files list, after the build ran.
FilesRequiredFailed ==
    /\ RootWithoutFiles
    /\ Has(fs0.pkg, "files")
    /\ pc = "failed"
    /\ err = FilesRequiredError
    /\ IsSome(fs.dist)
    /\ Len(Execs(ops)) = 1

NoCredentials ==
    /\ ~(IsSome(fs0.npmrc) /\ \E i \in 1..Len(Val(fs0.npmrc)) : isAuthLine(Val(fs0.npmrc)[i]))
    /\ ~(IsSome(env.NPM_TOKEN) /\ Val(env.NPM_TOKEN) # "")
\* C4: when the credential file has no auth-token line for the registry, or
\* does not exist, and NPM_TOKEN is unset or empty, the gate fails with the
\* missing-token error: the credential file stays as it was (and is not
\* created) and the publish collaborator is never invoked in that run.
GateFailsWithoutToken ==
    /\ [](NoCredentials
            => /\ fs.npmrc = fs0.npmrc
               /\ pc # "release_only"
               /\ \A i \in 1..Len(ops) :
                    /\ ~(ops[i].op = "exec" /\ ops[i].cmd = releaseOnlyCmd(argv.tag))
                    /\ ~(ops[i].op = "log" /\ ops[i].msg = releaseOnlyCmd(argv.tag)))
    /\ [][(pc = "gate" /\ NoCredentials)
            => (pc' = "failed" /\ err' = TokenRequiredError /\ fs' = fs)]_vars
\* The gate failed on a credential file that exists without an auth line.
GateFailedWithoutToken ==
    /\ NoCredentials
    /\ IsSome(fs0.npmrc)
    /\ pc = "failed"
    /\ err = TokenRequiredError
    /\ fs.npmrc = fs0.npmrc

BothWasmFlags ==
    argv.wasm /\ argv.napiWasm /\ ~argv.root /\ ~argv.wasmOpt.given
\* C5: with --wasm and --napi-wasm together (no --root, no --wasm-opt) the
\* run never invokes an external command and never completes; once it has
\* got to its release mode it fails with the mutual-exclusivity error.
ExclusiveFlagsRunNothing ==
    BothWasmFlags
    => /\ Execs(ops) = <<>>
       /\ pc # "done"
       /\ (ModeReached /\ pc # "wasm_flags")
            => (pc = "failed" /\ err = ExclusiveError)
\* The run failed on the two flags.
ExclusiveFlagsFailed ==
    BothWasmFlags /\ ModeReached /\ pc = "failed" /\ err = ExclusiveError

TwoWasmVariants ==
    /\ ~argv.root
    /\ ~argv.wasmOpt.given
    /\ \/ argv.wasm /\ argv.wasmWeb
       \/ argv.wasm /\ argv.napiWasm
       \/ argv.wasmWeb /\ argv.napiWasm
\* C6: selecting two or more of --wasm, --wasm-web and --napi-wasm (no
\* --root, no --wasm-opt) is rejected: the run never builds or packs a wasm
\* variant, publishes nothing and does not complete.
WasmVariantsExclusive ==
    TwoWasmVariants
    => /\ NothingPublished
       /\ pc \notin {"wasm_build", "web_build", "done"}

DefaultPath ==
    ~argv.root /\ ~argv.wasm /\ ~argv.napiWasm /\ ~argv.wasmWeb /\ ~argv.wasmOpt.given
\* The default path on the current shape with the one target, no npm directory.
OneTargetNoStubs ==
    /\ DefaultPath
    /\ fs0.cli = Some(CliV3)
    /\ Has(fs0.pkg, "napi")
    /\ fs0.pkg.napi = GoodV3(<<LinuxX64>>)
    /\ ~IsSome(fs0.npm)
Patched == {"workspace", "private", "reinstall", "gate", "release_only", "done"}
StubName(k) == Val(fs.npm)[k].files["package.json"].name
\* C7 as claimed: the one stub directory npm/linux-x64-gnu is created, and
\* none for a catalog platform whose triple is not a target.
OnlyTargetStubCreated ==
    (OneTargetNoStubs /\ IsSome(fs.npm))
    => DOMAIN Val(fs.npm) = {"linux-x64-gnu"}
\* C7, amended: a stub directory is created for every platform key of the
\* catalog, whatever the targets, and the default path patches the manifest
\* of each, npm/linux-x64-gnu among them, to the name <packageName>-<key>.
EveryCatalogStubCreated ==
    OneTargetNoStubs
    => /\ ModeReached => IsSome(fs.npm)
       /\ IsSome(fs.npm) => DOMAIN Val(fs.npm) = DOMAIN ARCH_MAP
       /\ pc \in Patched
            => \A k \in DOMAIN ARCH_MAP : StubName(k) = PackageName \o "-" \o k
\* The release got through, the stub of the target named after it.
OneTargetReleased ==
    /\ OneTargetNoStubs
    /\ pc = "done"
    /\ StubName("linux-x64-gnu") = "@scope/pkg-linux-x64-gnu"
    /\ "darwin-arm64" \in DOMAIN Val(fs.npm)

\* C8: after the stub-generation step every platform key of the catalog has
\* a directory under npm holding a README and a manifest, also when npm
\* existed holding a part of them.
StubForEveryCatalogEntry ==
    (ModeReached /\ pc \in {"root_build", "wasm_flags", "web_build", "patch"})
    => \A k \in DOMAIN ARCH_MAP :
        /\ k \in DOMAIN Val(fs.npm)
        /\ {"README.md", "package.json"} \subseteq DOMAIN Val(fs.npm)[k].files

\* C9: the stub step of a later run, on the directories an earlier run left,
\* creates no directory, writes no file, raises no error and leaves npm as
\* that run left it.
StubStepIdempotent ==
    /\ []((run > 1 /\ IsSome(fs0.npm)
                /\ pc \in {"root_build", "wasm_flags", "web_build", "patch"})
            => (fs.npm = fs0.npm /\ Mutations(ops) = <<>>))
    /\ [][(pc = "stubs" /\ IsSome(fs.npm))
            => /\ fs' = fs
               /\ Mutations(ops') = Mutations(ops)
               /\ pc' # "failed"]_vars
\* The second run is past its stub step, on the stubs the first created and
\* patched.
StubStepRepeated ==
    /\ run = 2
    /\ ~IsSome(argv.tag) /\ DefaultPath
    /\ pc = "patch"
    /\ fs.npm = fs0.npm
    /\ DOMAIN Val(fs.npm) = DOMAIN ARCH_MAP
    /\ StubName("linux-x64-gnu") = "@scope/pkg-linux-x64-gnu"
    /\ Mutations(ops) = <<>>

LegacyTriples == fs0.pkg.napi.triples
\* The legacy shape under tool version 2 whose triples are not set by hand:
\* defaults is not false, or additional is empty or absent.
LegacyNotManual ==
    /\ pc \notin {"start", "detect", "assert", "config"}
    /\ cliVersion.isV2
    /\ Has(fs0.pkg, "napi")
    /\ (Has(fs0.pkg.napi, "triples") /\ Has(LegacyTriples, "defaults")
            /\ LegacyTriples.defaults = "false")
        => ~(Has(LegacyTriples, "additional") /\ LegacyTriples.additional # <<>>)
\* C10: normalization of a legacy-shape manifest under tool version 2 fails
\* with the configuration error whenever defaults is true, null or absent,
\* whatever additional is, and whenever additional is empty or absent.
LegacyDefaultsMustBeFalse ==
    LegacyNotManual
    => pc = "failed" /\ err = ManualConfigError /\ ~IsSome(napiFinalConfig)
\* Normalization failed on defaults true with a non-empty additional.
LegacyDefaultsTrueFailed ==
    /\ LegacyNotManual
    /\ Has(fs0.pkg.napi, "triples") /\ Has(LegacyTriples, "defaults")
    /\ LegacyTriples.defaults = "true"
    /\ Has(LegacyTriples, "additional") /\ LegacyTriples.additional = <<LinuxX64>>
    /\ pc = "failed"
    /\ err = ManualConfigError

\* Normalization has been tried on the manifest the run started from.
Normalized == pc \notin {"start", "detect", "assert", "config"}
Napi0 == fs0.pkg.napi
\* The fields an error message of the normalizer names.
FieldsNamed(msg) ==
    CASE msg = MissingError("binaryName") -> {"binaryName"}
      [] msg = MissingError("packageName") -> {"packageName"}
      [] msg = MissingError("targets") -> {"targets"}
      [] msg = TargetsError -> {"targets"}
      [] msg = MissingError("name") -> {"name"}
      [] msg = MissingError("package") -> {"package", "package.name"}
      [] msg = MissingError("triples") -> {"triples", "triples.additional"}
      [] msg = ManualConfigError -> {"triples.defaults"}
      [] OTHER -> {}
\* The required fields a manifest lacks (absent, or an empty list), in the
\* current and the legacy shape.
MissingV3Fields ==
    {k \in {"binaryName", "packageName"} : ~Has(Napi0, k)}
    \cup (IF NonEmptyArr(Napi0, "targets") THEN {} ELSE {"targets"})
MissingV2Fields ==
    (IF Has(Napi0, "name") THEN {} ELSE {"name"})
    \cup (IF Has(Napi0, "package") /\ Has(Napi0.package, "name")
          THEN {} ELSE {"package.name"})
    \cup (IF Has(Napi0, "triples") /\ NonEmptyArr(Napi0.triples, "additional")
          THEN {} ELSE {"triples.additional"})
\* defaults is the literal false: what C10 asks of the legacy shape first.
LegacyDefaultsFalse ==
    Has(Napi0, "triples") /\ Has(Napi0.triples, "defaults")
        /\ Napi0.triples.defaults = "false"
\* C11: normalization fails naming a field that is missing: binaryName,
\* packageName or targets in the current shape, napi.name, napi.package.name
\* or napi.triples.additional in the legacy shape (defaults being false);
\* and under a tool version that is neither 2.x nor 3.x it fails with the
\* unsupported-version error whatever the napi block of the manifest holds.
MissingFieldIsNamed ==
    Normalized
    => /\ (Has(fs0.pkg, "napi") /\ cliVersion.isV3 /\ MissingV3Fields # {})
            => (pc = "failed" /\ FieldsNamed(err) \cap MissingV3Fields # {})
       /\ (Has(fs0.pkg, "napi") /\ cliVersion.isV2 /\ LegacyDefaultsFalse
                /\ MissingV2Fields # {})
            => (pc = "failed" /\ FieldsNamed(err) \cap MissingV2Fields # {})
       /\ (Has(fs0.pkg, "napi") /\ ~cliVersion.isV2 /\ ~cliVersion.isV3)
            => (pc = "failed" /\ err = UnsupportedVersionError)

\* The configured targets that are no targetName of the catalog, in order.
Offending(targets) ==
    SelectSeq(targets, LAMBDA t : \A k \in DOMAIN ARCH_MAP : ARCH_MAP[k].targetName # t)
\* The console line `title` of this run lists `list`.
Reported(title, list) ==
    \E i \in 1..Len(ops) :
        /\ ops[i].op = "log"
        /\ ops[i].msg = title
        /\ "list" \in DOMAIN ops[i]
        /\ ops[i].list = list
\* C12: a run that failed in target validation has printed the offending
\* triples, the configured targets the catalog does not have, and the
\* supported set, the target triples of the catalog.
ValidationReportsSupportedSet ==
    (pc = "failed" /\ err = "Unsupported platform")
    => /\ Reported("Not support compililing these platforms config: ",
                   Offending(Val(napiFinalConfig).targets))
       /\ Reported("Supported platforms: ", allSupportTargetList)

\* The manifest of dist has been written in this run.
DistManifestWritten ==
    \E i \in 1..Len(ops) : ops[i] = Write("dist/package.json")

\* The entries of <root>/npm that are directories.
StubDirectories == {k \in DOMAIN Val(fs.npm) : Val(fs.npm)[k].isDir}

\* C13: in root mode the optionalDependencies of the dist manifest have one
\* key <packageName>-<platformKey> for every stub directory of <root>/npm and
\* no other key (a non-directory entry yields none), each mapped to the
\* version of the root manifest.
OptionalDependenciesAreStubDirectories ==
    DistManifestWritten =>
        LET deps == Val(fs.dist)["package.json"].optionalDependencies
        IN /\ DOMAIN deps =
                {Val(napiFinalConfig).packageName \o "-" \o k : k \in StubDirectories}
           /\ \A n \in DOMAIN deps : deps[n] = fs0.pkg.version

\* The write or copy `o` puts a file into the directory `path`.
IntoDir(o, path) ==
    /\ o.op \in {"write", "copy"}
    /\ o.path \in {path} \cup
            {path \o "/" \o n : n \in {"package.json", "README.md", "LICENSE"}
                                        \cup DOMAIN fs0.root}
\* Before anything is put into `path` the directory is made, and removed
\* before that when it was there at the start of the run.
RecreatedFirst(path, before) ==
    \A i \in 1..Len(ops) :
        IntoDir(ops[i], path) =>
            \E m \in 1..(i - 1) :
                /\ ops[m] = Mkdir(path)
                /\ IsSome(before) => \E r \in 1..(m - 1) : ops[r] = Remove(path)
Recreated(path) == \E m \in 1..Len(ops) : ops[m] = Mkdir(path)
\* The names of the outputs this run copied into the wasm directory `path`.
CopiedOutputs(path) ==
    {ops[i].from.name : i \in {j \in 1..Len(ops) :
                                ops[j].op = "copy" /\ ops[j].path = path}}
PackageFiles == {Name2("README", "md"), Name2("package", "json"), Name1("LICENSE")}

\* C14: dist, target/wasm_publish and target/wasm_web_publish are removed
\* and made anew before anything is put into them, and from then on hold
\* only what this run wrote or copied: nothing left by an earlier run.
OutputDirectoriesAreFresh ==
    /\ RecreatedFirst("dist", fs0.dist)
    /\ RecreatedFirst(WasmPublishDir, fs0.wasmPublish)
    /\ RecreatedFirst(WasmWebPublishDir, fs0.wasmWebPublish)
    /\ Recreated("dist") =>
            \A f \in DOMAIN Val(fs.dist) :
                \E i \in 1..Len(ops) : IntoDir(ops[i], "dist")
                                        /\ ops[i].path = "dist/" \o f
    /\ Recreated(WasmPublishDir) =>
            DOMAIN Val(fs.wasmPublish) \subseteq
                CopiedOutputs(WasmPublishDir) \cup PackageFiles
    /\ Recreated(WasmWebPublishDir) =>
            DOMAIN Val(fs.wasmWebPublish) \subseteq
                CopiedOutputs(WasmWebPublishDir) \cup PackageFiles
\* A release ended well on an output directory that held a stale file.
StaleOutputReplaced ==
    /\ pc = "done"
    /\ \/ argv.root /\ IsSome(fs0.dist) /\ "stale.js" \notin DOMAIN Val(fs.dist)
       \/ argv.wasm /\ IsSome(fs0.wasmPublish)
            /\ Name2("stale", "js") \notin DOMAIN Val(fs.wasmPublish)
       \/ argv.wasmWeb /\ IsSome(fs0.wasmWebPublish)
            /\ Name2("stale", "js") \notin DOMAIN Val(fs.wasmWebPublish)

Count(list, x) == Len(SelectSeq(list, LAMBDA e : e = x))
Others(list, x) == SelectSeq(list, LAMBDA e : e # x)
WorkspaceWrites ==
    SelectSeq(ops, LAMBDA o : o.op \in {"write", "append"}
                                /\ o.path = "pnpm-workspace.yaml")

\* C15: once a default-publish run is past the workspace step, whatever the
\* runs before it, the packages of pnpm-workspace.yaml hold './npm/*' exactly
\* once, the other entries are the ones the run found, in their order, and
\* the run has written the file exactly once.
WorkspaceAppendIdempotent ==
    (DefaultPath /\ pc \in Patched \ {"workspace"}) =>
        /\ Count(Val(fs.workspace), StubGlob) = 1
        /\ Others(Val(fs.workspace), StubGlob) = Others(Val(fs0.workspace), StubGlob)
        /\ Len(WorkspaceWrites) = 1

\* The manifest of the stub npm/<k>.
StubManifest(k) == Val(fs.npm)[k].files["package.json"]
\* The default path is past the patching of the stubs.
StubsPatched == DefaultPath /\ pc \in Patched

\* C16: once the default path has patched the stubs, the manifest of every
\* stub directory named by a catalog platform key K has the name
\* <packageName>-K, the root version, main <binaryName>.K.node, files [main],
\* the description of K from the catalog, and the root manifest's value for
\* each shared field the root manifest has; the shared fields override none
\* of name, version, main and files.
StubManifestsPatched ==
    StubsPatched =>
        \A k \in DOMAIN Val(fs.npm) \cap DOMAIN ARCH_MAP :
            LET m == StubManifest(k)
                c == Val(napiFinalConfig)
                main == c.binaryName \o "." \o k \o ".node"
            IN /\ m.name = c.packageName \o "-" \o k
               /\ m.version = fs0.pkg.version
               /\ m.main = main
               /\ m.files = <<main>>
               /\ m.description = "This is the " \o ARCH_MAP[k].desc
                                    \o " binary for " \o fs0.pkg.name \o "."
               /\ \A g \in GlobalPropKeys \cap DOMAIN fs0.pkg :
                    Has(m, g) /\ m[g] = fs0.pkg[g]
\* A default-path release that patched stub directories it found.
ExistingStubsPatched ==
    /\ StubsPatched
    /\ pc = "done"
    /\ IsSome(fs0.npm)
    /\ "linux-x64-gnu" \in DOMAIN Val(fs.npm)
    /\ StubManifest("linux-x64-gnu").license = "MIT"

\* The command was handed to utils/cmd.ts (run, or logged under DEBUG_VARY).
Ran(command) ==
    \E i \in 1..Len(ops) :
        \/ ops[i].op = "exec" /\ ops[i].cmd = command
        \/ ops[i].op = "log" /\ ops[i].msg = command
\* The steps of each release branch, as they show in ops.
RootSteps == Ran("pnpm build") \/ Recreated("dist")
WasmSteps ==
    \/ Ran("pnpm build:wasm")
    \/ Recreated(WasmPublishDir)
    \/ \E i \in 1..Len(ops) : ops[i] = Copy("helpers/napi/index.js", "index.js")
WebSteps == Ran("pnpm build:wasm:web") \/ Recreated(WasmWebPublishDir)
DefaultSteps ==
    \/ Ran("pnpm i --no-frozen-lockfile")
    \/ Ran(releaseOnlyCmd(argv.tag))
    \/ \E i \in 1..Len(ops) :
            \/ ops[i] \in {Write("pnpm-workspace.yaml"), Write("package.json")}
            \/ \E k \in DOMAIN ARCH_MAP :
                    ops[i] = Copy("LICENSE", "npm/" \o k \o "/LICENSE")
BranchesRun ==
    {b \in {"root", "wasm", "wasm-web", "default"} :
        CASE b = "root" -> RootSteps
          [] b = "wasm" -> WasmSteps
          [] b = "wasm-web" -> WebSteps
          [] b = "default" -> DefaultSteps}
\* The branch the flags select.
Selected ==
    IF argv.wasmOpt.given THEN "optimize-only"
    ELSE IF argv.root THEN "root"
    ELSE IF argv.wasm \/ argv.napiWasm THEN "wasm"
    ELSE IF argv.wasmWeb THEN "wasm-web"
    ELSE "default"
PublishCommands ==
    SelectSeq(ops, LAMBDA o :
        \/ o.op = "exec" /\ o.cmd \in {NpmPublish, releaseOnlyCmd(argv.tag)}
        \/ o.op = "log" /\ o.msg \in {NpmPublish, releaseOnlyCmd(argv.tag)})

\* C17: whatever the selection flags, the steps a run executes belong to one
\* branch, the one the flags select (optimize-only before root before wasm
\* before wasm-web before the default sub-packages); a run that ends well
\* has executed that branch; at most one publish command is invoked.
ExactlyOneBranch ==
    /\ BranchesRun \subseteq {Selected}
    /\ Len(PublishCommands) <= 1
    /\ pc = "done" => (argv.wasmOpt.given \/ BranchesRun = {Selected})
\* A run with --root and --wasm ended well and ran the root branch only.
RootWithWasmRanRoot ==
    /\ pc = "done"
    /\ argv.root /\ argv.wasm
    /\ BranchesRun = {"root"}
    /\ Len(PublishCommands) = 1

OptimizeOnly == argv.wasmOpt.given
PassLabels ==
    {"start", "opt_tips", "opt_find", "opt_fetch", "opt_run", "opt_wait", "done", "failed"}
PassCommands == {"curl", "tar", "wasm-opt -Oz"}

\* C18: a run with --wasm-opt, whatever the other flags, stays within the
\* optimization pass: it detects no tool version and normalizes no
\* configuration, lists no stub directory, leaves every file but the cache
\* directory and the optimized .wasm files as it was (no stub, manifest,
\* workspace or credential file is written), and hands utils/cmd.ts nothing
\* but the download, the extraction and the optimizer.
OptimizeOnlyRunsOnlyThePass ==
    OptimizeOnly =>
        /\ pc \in PassLabels
        /\ cliVersion = [isV2 |-> FALSE, isV3 |-> FALSE]
        /\ napiFinalConfig = NoConfig
        /\ dirs = <<>>
        /\ \A k \in (DOMAIN fs) \ {"cache", "wasm", "wasmWeb"} : fs[k] = fs0[k]
        /\ \A i \in 1..Len(ops) :
            /\ ops[i].op \in MutationOps => ops[i] = Mkdir(CacheDir)
            /\ ops[i].op = "exec" => ops[i].cmd \in PassCommands
            /\ ops[i].op = "log" =>
                    ops[i].msg \notin {"pnpm build", "pnpm build:wasm", "pnpm build:wasm:web",
                                       "pnpm i --no-frozen-lockfile", NpmPublish,
                                       releaseOnlyCmd(argv.tag)}
\* A run with --wasm-opt and --root ended after the optimizer ran.
OptimizeOnlyWithRootDone ==
    /\ OptimizeOnly
    /\ argv.root
    /\ pc = "done"
    /\ \E i \in 1..Len(ops) : ops[i].op = "exec" /\ ops[i].cmd = "wasm-opt -Oz"

\* performWasmOpt has been called and is past the search for .wasm files.
PassSearched == opt.ret # "" /\ pc \notin {"opt_tips", "opt_find"}
SkipOpt == IsSome(env.VARY_SKIP_WASM_OPT) /\ Val(env.VARY_SKIP_WASM_OPT) # ""
\* The directory given, or the default search, holds no .wasm file.
NothingToOptimize ==
    /\ IsSome(opt.path) => existsSync(fs, OptPath(Val(opt.path)))
    /\ wasmFilePath(opt.path) = <<>>

\* C19: when the pass finds no .wasm file (in the directory given or in the
\* default directories), or VARY_SKIP_WASM_OPT is set, it returns with the
\* cache directory as it was, nothing downloaded or unpacked and the
\* optimizer never invoked.
NothingToOptimizeFetchesNothing ==
    (PassSearched /\ (SkipOpt \/ NothingToOptimize)) =>
        /\ fs.cache = fs0.cache
        /\ pc \notin {"opt_fetch", "opt_run", "opt_wait"}
        /\ \A i \in 1..Len(ops) :
            /\ ops[i] # Mkdir(CacheDir)
            /\ ops[i].op = "exec" => ops[i].cmd \notin PassCommands
            /\ ops[i].op = "log" => ops[i].msg \notin PassCommands
\* --wasm-opt was given a directory without a .wasm file, and the pass ended.
EmptyDirectorySkipped ==
    /\ OptimizeOnly
    /\ pc = "done"
    /\ IsSome(opt.path) /\ isDirectory(fs, OptPath(Val(opt.path)))
    /\ NothingToOptimize
    /\ \E i \in 1..Len(ops) : ops[i] = Log("Cannot find wasm file, skip wasm-opt")

\* What can go wrong inside performWasmOpt.
PassErrors ==
    { "EACCES: permission denied, open 'Cargo.toml'",
      "The specified wasm file or dir does not exist",
      "Unsupported platform: " \o env.platform,
      "Unsupported arch: " \o env.arch,
      "Command failed: curl", "Command failed: tar", "Command failed: wasm-opt" }

\* C20: no failure inside performWasmOpt ends the run: the pass always
\* returns to its caller, so a run never fails with one of the pass's errors.
OptimizationNeverFailsRelease ==
    pc = "failed" => err \notin PassErrors

\* The errors of the preflight of the Node variant.
NodePreflightErrors ==
    { "Cannot read properties of undefined (reading 'includes')",
      "package.json#files must includes binding.js, index.js, postinstall.js",
      "package.json must include the 'scripts.postinstall' for wasm fallback" }
PortableRuntimeMode ==
    argv.napiWasm /\ ~argv.wasm /\ ~argv.root /\ ~argv.wasmOpt.given

\* C21: a --napi-wasm release is never rejected by the preflight of the Node
\* variant: it does not fail because the files list of the root manifest
\* lacks binding.js, index.js or postinstall.js, nor because
\* scripts.postinstall is missing.
PortableRuntimeSkipsNodePreflight ==
    (PortableRuntimeMode /\ pc = "failed") => err \notin NodePreflightErrors

\* Root mode is past the copy of the files into dist.
RootFilesHandled ==
    /\ argv.root /\ ~argv.wasmOpt.given
    /\ DistManifestWritten
    /\ NonEmptyArr(rootPkg, "files")
    /\ pc # "root_files"
RootWanted == <<"LICENSE", "README.md">> \o rootPkg.files
EntryPointMissing ==
    "index.js" \in Range(RootWanted) /\ "index.js" \notin DOMAIN fs.root
Logged(msg) == \E i \in 1..Len(ops) : ops[i] = Log(msg)

PublishOnlyCommands == {"changeset publish", "changeset publish --tag beta"}
Delegations ==
    SelectSeq(ops, LAMBDA o :
        \/ o.op = "exec" /\ o.cmd \in PublishOnlyCommands
        \/ o.op = "log" /\ o.msg \in PublishOnlyCommands)
CommandOf(o) == IF o.op = "exec" THEN o.cmd ELSE o.msg
HadAuthLine == IsSome(fs0.npmrc) /\ hasAuthLine(Val(fs0.npmrc))
NpmrcTouched ==
    \E i \in 1..Len(ops) :
        ops[i].op \in {"append", "write"} /\ ops[i].path = "~/.npmrc"

\* C23: when the gate hands over to the publish-only collaborator, ~/.npmrc
\* exists and holds an auth-token line for the registry host; when the line
\* was there before, the file is as it was and untouched (with or without
\* NPM_TOKEN), otherwise NPM_TOKEN is set and its line is in the file; and
\* the command of the collaborator carries --tag exactly when a tag was given.
GateDelegatesWithCredentials ==
    (pc = "release_only" \/ Delegations # <<>>) =>
        /\ IsSome(fs.npmrc)
        /\ \E i \in 1..Len(Val(fs.npmrc)) :
            LET line == Val(fs.npmrc)[i]
            IN /\ isAuthLine(line)
               /\ Lower(TrimStart(line)[2]) = RegistryHost
        /\ IF HadAuthLine
           THEN fs.npmrc = fs0.npmrc /\ ~NpmrcTouched
           ELSE /\ IsSome(env.NPM_TOKEN) /\ Val(env.NPM_TOKEN) # ""
                /\ \E i \in 1..Len(Val(fs.npmrc)) :
                        Val(fs.npmrc)[i] = <<"//", RegistryHost, "/:", "_authToken", "=",
                                             Val(env.NPM_TOKEN)>>
        /\ \A i \in 1..Len(Delegations) :
            CommandOf(Delegations[i]) =
                IF IsSome(argv.tag) THEN "changeset publish --tag " \o Val(argv.tag)
                ELSE "changeset publish"
\* A tagged release was handed over on the credentials already in the file,
\* with no NPM_TOKEN.
TaggedReleaseOnExistingToken ==
    /\ pc = "done"
    /\ HadAuthLine
    /\ ~IsSome(env.NPM_TOKEN)
    /\ IsSome(argv.tag)
    /\ Delegations # <<>>

ScriptsOf(manifest) ==
    IF Has(Val(manifest), "scripts") THEN Val(manifest).scripts ELSE EmptyObject

\* C24: after init, every script that was there and not empty has the value
\* it had, every shortcut command that was absent or empty has its default,
\* the scripts of other names and the other fields of the manifest are as
\* they were, and a second init leaves the manifest of the first.
InitKeepsExistingScripts ==
    (pc = "done" /\ "packageJson" \in DOMAIN fs) =>
        LET old == ScriptsOf(fs0.packageJson)
            new == ScriptsOf(fs.packageJson)
        IN /\ DOMAIN new = DOMAIN old \cup Range(DefaultNames)
           /\ \A n \in DOMAIN old :
                (TruthyStr(old, n) \/ n \notin Range(DefaultNames)) => new[n] = old[n]
           /\ \A n \in Range(DefaultNames) :
                ~TruthyStr(old, n) =>
                    new[n] \in {DEFAULT_COMMADS(v)[n] : v \in PnpmVersions}
           /\ Without(Val(fs.packageJson), "scripts")
                = Without(Val(fs0.packageJson), "scripts")
           /\ run > 1 => fs.packageJson = fs0.packageJson
\* init ran twice on a manifest with a build script of its own and no push.
InitRanTwice ==
    /\ "packageJson" \in DOMAIN fs
    /\ pc = "done"
    /\ run = 2
    /\ ScriptsOf(fs.packageJson)["build"] = "custom"
    /\ ScriptsOf(fs.packageJson)["push"] = "vary push"

ReinstallCmd == "pnpm i --no-frozen-lockfile"
GateMessages ==
    {"Found existing user .npmrc file", "Found existing auth token",
     "Didn't find existing auth token", "No user .npmrc file found, creating one"}
\* The step of the default path an entry of ops belongs to, 0 for none:
\* 1 a stub patched, 2 the workspace file written, 3 the root manifest
\* written, 4 the reinstall, 5 the credential check, 6 the collaborator.
StepOf(o) ==
    CASE o.op = "log" ->
            (IF o.msg \in {"Patched: " \o Val(napiFinalConfig).packageName \o "-" \o k :
                            k \in DOMAIN ARCH_MAP} THEN 1
             ELSE IF o.msg = ReinstallCmd THEN 4
             ELSE IF o.msg \in GateMessages THEN 5
             ELSE IF o.msg \in PublishOnlyCommands THEN 6 ELSE 0)
      [] o.op = "copy" ->
            (IF o.path \in {"npm/" \o k \o "/LICENSE" : k \in DOMAIN ARCH_MAP}
             THEN 1 ELSE 0)
      [] o.op \in {"write", "append"} ->
            (IF o.path = "pnpm-workspace.yaml" THEN 2
             ELSE IF o.path = "package.json" THEN 3
             ELSE IF o.path = "~/.npmrc" THEN 5 ELSE 0)
      [] o.op = "exec" ->
            (IF o.cmd = ReinstallCmd THEN 4
             ELSE IF o.cmd \in PublishOnlyCommands THEN 6 ELSE 0)
      [] OTHER -> 0
StepDone(n) == \E i \in 1..Len(ops) : StepOf(ops[i]) = n
ReinstallFailed == pc = "failed" /\ err = "Command failed: " \o ReinstallCmd

\* C25: in the default path the steps come in the order stubs patched,
\* workspace file, private root manifest, reinstall, credential check,
\* collaborator, none before the one ahead of it is done; so when the
\* collaborator is invoked the workspace file lists './npm/*', the root
\* manifest on disk is private and the reinstall did not fail; a failing
\* reinstall ends the run with no collaborator and ~/.npmrc untouched.
DefaultPathInOrder ==
    (DefaultPath /\ IsSome(napiFinalConfig)) =>
        /\ \A i, j \in 1..Len(ops) :
            (i < j /\ StepOf(ops[i]) # 0 /\ StepOf(ops[j]) # 0)
                => StepOf(ops[i]) <= StepOf(ops[j])
        /\ \A n \in 2..6 : StepDone(n) => \A m \in 2..(n - 1) : StepDone(m)
        /\ StepDone(2) =>
            \A k \in Range(dirs) : Logged("Patched: " \o Val(napiFinalConfig).packageName
                                            \o "-" \o k)
        /\ StepDone(6) =>
            /\ \E i \in 1..Len(Val(fs.workspace)) : Val(fs.workspace)[i] = StubGlob
            /\ Has(fs.pkg, "private") /\ fs.pkg.private = "true"
            /\ ~ReinstallFailed
        /\ ReinstallFailed =>
            /\ ~StepDone(5) /\ ~StepDone(6)
            /\ fs.npmrc = fs0.npmrc
\* The default path went all the way, the token line written on the way.
DefaultPathWentThrough ==
    /\ DefaultPath
    /\ pc = "done"
    /\ NpmrcTouched
    /\ \A n \in 1..6 : StepDone(n)

\* The wasm-opt processes started, by the file each one rewrites.
TaskFiles ==
    LET tasks == SelectSeq(ops, LAMBDA o : o.op = "exec" /\ o.cmd = "wasm-opt -Oz")
    IN [i \in 1..Len(tasks) |-> tasks[i].file]
Distinct(list) == \A i, j \in 1..Len(list) : i # j => list[i] # list[j]
TasksDistinct == Distinct(opt.files) /\ Distinct(TaskFiles)
\* A wasm-opt process is running only while the pass waits for it.
TasksAwaited == opt.running # {} => pc = "opt_wait"

\* C26: the wasm-opt processes started together rewrite pairwise distinct
\* files (the list of .wasm paths found holds no path twice), and the pass
\* is over only when every one of them has exited.
ParallelTasksDistinctAndAwaited == TasksDistinct /\ TasksAwaited

\* C27: over any runs of the pass, failed downloads and extractions among
\* them, wasm-opt is invoked only with its binary in the cache directory: a
\* run that finds the archive there, and so neither downloads nor unpacks,
\* finds the binary too.
ToolInvokedOnlyWhenPresent ==
    (pc \in {"opt_run", "opt_wait"} \/ TaskFiles # <<>>) =>
        IsSome(fs.cache) /\ OptBin \in Val(fs.cache)

\* The portable-runtime package has been put together in this run.
WasiPackaged ==
    /\ argv.napiWasm
    /\ \E i \in 1..Len(ops) : ops[i] = Write(WasmPublishDir \o "/package.json")
WasiManifest == Val(fs.wasmPublish)[Name2("package", "json")]
\* The value names a file of the publish directory, relative to it.
NamesPublishedFile(value) ==
    value.dir = "" /\ value.name \in DOMAIN Val(fs.wasmPublish)

\* C28: in --napi-wasm mode every output copied into the publish directory
\* comes from target/wasm, and main and browser of the manifest written are
\* names, relative to the publish directory, of files copied into it.
WasiEntriesArePublishedFiles ==
    WasiPackaged =>
        /\ \A i \in 1..Len(ops) :
            (ops[i].op = "copy" /\ ops[i].path = WasmPublishDir)
                => ops[i].from.dir = TargetWasm
        /\ NamesPublishedFile(WasiManifest.main)
        /\ NamesPublishedFile(WasiManifest.browser)

WasmPreconditionErrors ==
    NodePreflightErrors \cup
        { "The 'binding.js' file does not exist.",
          "The 'target/wasm' dir does not exist. Please build first" }
WasmPreconditionFailed ==
    /\ (argv.wasm \/ argv.napiWasm) /\ ~argv.root /\ ~argv.wasmOpt.given
    /\ pc = "failed"
    /\ err \in WasmPreconditionErrors

\* C29: a --wasm or --napi-wasm run that ends on a failed precondition
\* (binding.js, the files list, scripts.postinstall, target/wasm) has left
\* the files of the repository root as they were, index.js and
\* postinstall.js among them, and has not made the publish directory anew.
FailedPreconditionLeavesRoot ==
    WasmPreconditionFailed =>
        /\ fs.root = fs0.root
        /\ \A i \in 1..Len(ops) :
            (ops[i].op \in {"write", "copy", "remove"})
                => ops[i].path \notin {"index.js", "postinstall.js"}
        /\ fs.wasmPublish = fs0.wasmPublish
        /\ ~Recreated(WasmPublishDir)

AuthLines(file) == IF IsSome(file) THEN SelectSeq(Val(file), isAuthLine) ELSE <<>>
KeepsLines(before, after) ==
    IsSome(before) =>
        /\ IsSome(after)
        /\ Len(Val(after)) >= Len(Val(before))
        /\ SubSeq(Val(after), 1, Len(Val(before))) = Val(before)
GateStepOnCredentials ==
    /\ KeepsLines(fs.npmrc, fs'.npmrc)
    /\ AuthLines(fs.npmrc) # <<>> => fs'.npmrc = fs.npmrc
    /\ fs'.npmrc # fs.npmrc =>
        /\ pc = "gate" /\ hasToken
        /\ AuthLines(fs'.npmrc) = <<tokenLine>>

\* C30: over any number of runs with NPM_TOKEN set, a credential file that
\* was absent or had no auth-token line gains one auth-token line in all:
\* the run that finds none adds it, every later run finds it and leaves the
\* file as it is, and the lines the file already had stay, in their order.
GateIdempotentOnCredentials ==
    /\ [](Len(AuthLines(fs.npmrc)) <= 1)
    /\ [][GateStepOnCredentials]_vars
SecondGateRunFoundItsLine ==
    /\ run = 2 /\ pc = "done" /\ hasToken
    /\ fs.npmrc = Some(<<OtherLine, EmptyLine, tokenLine, EmptyLine>>)
    /\ fs.npmrc = fs0.npmrc
    /\ ~NpmrcTouched
    /\ \E i \in 1..Len(ops) :
        ops[i].op = "log" /\ ops[i].msg = "Found existing auth token"

=============================================================================
